---- MODULE Spec2Model ----
(***************************************************************************)
(* A model of bep/execrpc: the client (ClientRaw, the typed Client and its *)
(* Result), the child's two pipes, and the typed server (ServerRaw's       *)
(* inputOutput loop, NewServer's callRaw, the handler's Call).             *)
(*                                                                         *)
(* Slot 0 is the raw Execute of the init exchange run by StartClient;      *)
(* slots 1..NumCallers are typed Execute calls, each issued at most once,  *)
(* at any time after StartClient has returned the client.                  *)
(*                                                                         *)
(* SpecConstruct is the init exchange of StartClient; Spec is concurrent   *)
(* callers, the timer, Close and the death of the child against handlers   *)
(* that stream and may fail; SpecStream is one caller against a handler    *)
(* that may do anything, on a server with or without DelayDelivery;        *)
(* SpecRaw adds the standalone (id 0) messages of SendRaw and repeated     *)
(* calls of Close; SpecWire is the writers of the two pipes at the level   *)
(* of the single Write; SpecMessage is a Header or a Message written to a  *)
(* byte stream and read back; SpecStart is the start of the child, from    *)
(* the command to the first frame, at the level of the byte; SpecBacklog   *)
(* is two callers and a reader whose Messages channel nobody receives      *)
(* from; SpecLocks is the same tasks and a caller of Close at the level    *)
(* of the single Lock and Unlock of sendMu and mu; SpecSlow is a caller    *)
(* that does not drain its own messages next to a second caller;           *)
(* SpecSendRaw is a handler that calls SendRaw with any id; SpecResult is  *)
(* the calls of Result.Err; SpecSeq is the counter of the ids at its full  *)
(* width; SpecTail is the writes to the tail of the child's stderr.        *)
(***************************************************************************)
EXTENDS Integers, Sequences, FiniteSets, TLC

\* ---------------------------------------------------------------- bounds
NumCallers == 2
MaxMsgs == 2
MaxTimeouts == 1
\* the size a handler writes into its receipt when it sets one itself
PresetSize == 9
\* the standalone messages a handler sends through SendRaw
MaxRaw == 1
\* the frames one writer writes to its pipe, and the longest body written to a stream
MaxFrames == 2
MaxBody == 2
\* the bytes user code prints before the server starts, and after; the request
\* frames a started client sends
MaxPrint == 2
MaxStartFrames == 1
\* the calls of Close on one client
MaxCloses == 3
\* the standalone messages a handler sends when nobody reads them: one more than
\* the client's Messages channel holds
MaxBacklog == 11
\* calls of Result.Err on one Result
MaxErrCalls == 2
\* Write calls on the stderr tail buffer
MaxTailWrites == 6
\* calls of newCall on a client whose counter is looked at in full width
MaxIssued == 5
\* messages a handler enqueues for a caller that does not take them
MaxFlood == 11

\* ------------------------------------------------------- program constants
MessageStatusOK == 0
MessageStatusContinue == 1
MessageStatusInitServer == 2
MessageStatusErrDecodeFailed == 3
MessageStatusErrEncodeFailed == 4
MessageStatusErrInitServerFailed == 5
MessageStatusSystemReservedMax == 99
\* capacity of the per-call channels (messagesRaw, result.messages, call.messages)
ChanCap == 10
\* the status the example server gives its standalone (log) messages
RawStatus == 150
\* the length of an encoded Header
HeaderLen == 10
\* 2^16: ClientRaw.seq is a uint32, kept as two halves of sixteen bits
Half == 65536
\* the limit newConn gives the stderr tail buffer
limit == 1024
\* the byte that ends the line the server announces itself with
Newline == 10

Slots == 0 .. NumCallers
Callers == 1 .. NumCallers
InitSlot == 0

\* error values: an error is the chain of its messages, outermost first
NoErr == <<>>
ErrShutdown == <<"connection is shut down">>
ErrTimeoutWaitingForCall == <<"timeout waiting for call">>
ErrUnexpectedEOF == <<"unexpected EOF">>
EOF == <<"EOF">>
ErrClosed == <<"file already closed">>
ErrBrokenPipe == <<"broken pipe">>
\* fmt.Errorf("%s: ...", op, err) and fmt.Errorf("...: %w", err)
addErrContext(op, err) == <<op>> \o err
\* the innermost message of an error
Cause(err) == err[Len(err)]

\* ------------------------------------------------------------------ codec
\* The payload codec is pluggable; a value it cannot encode is BadValue, a
\* body that is not an encoding (a diagnostic string) does not decode.
BadValue == <<-1>>
\* a request the client encodes but the server's request type rejects
BadRequest == <<-2>>

CanEncode(v) == v # BadValue
\* a receipt is a record; the one the codec cannot encode has BadValue as its text
CanEncodeReceipt(r) == r.text # BadValue
Encode(v) == [enc |-> v]
CanDecode(b) == "enc" \in DOMAIN b
Decode(b) == b.enc
\* a nil body, and the body of a diagnostic frame
NilBody == [nil |-> TRUE]
DiagBody(status) == [diag |-> status]
\* len(body)
BodyLen(b) == IF "enc" \in DOMAIN b THEN Len(b.enc) ELSE IF "diag" \in DOMAIN b THEN 1 ELSE 0

\* the request a caller sends, and the k-th message its handler enqueues
RequestOf(s) == <<s>>
MessageOf(q, k) == q \o [i \in 1 .. k |-> k]

Frame(id, status, body) == [id |-> id, status |-> status, body |-> body]
\* the zero Message a receive on a closed channel yields
ZeroMessage == Frame(0, 0, NilBody)

VARIABLES
    \* ---- ClientRaw
    closing, shutdown, seq, pending, oob, oobClosed, crashed,
    \* ---- conn: the child's stdin and stdout pipes, and the child process
    inPipe, outPipe, connClosed, childExited,
    \* ---- the reader goroutine (ClientRaw.input)
    rdPc, rdMsg, rdErr,
    \* ---- ClientRaw.Execute, one per slot
    rawPc, callId, callErr, doneCh, timer, sink, sinkClosed, ret,
    \* ---- StartClient / Client.init
    stage, initErrc,
    \* ---- Client.Execute and its Result, one per caller
    request, g1Pc, resMsgs, resReceipt, errc, resClosed,
    \* ---- Client.Close
    closePc,
    \* ---- the server process: inputOutput, callRaw and the handler's Call
    srvPc, srvReq, hPc, hEnq, callMsgs, closed1, closed2, drop,
    receiptFromServer, receiptToServer, messageBuff, size, bodies,
    delayDelivery, optsInit, messagesRaw,
    \* ---- history
    sentLog, wroteLog, enqueued, dropped, handed, startedAfterClose,
    startedAfterTimeout, inFlightAtClose, closeLog,
    \* ---- the writers of the two pipes (ClientRaw.send, messageDispatcher.SendMessage)
    wirePc, wireMu, wirePipe,
    \* ---- a Message written to a byte stream and read back (Message.Write, Message.Read)
    codecPc, msgIn, msgNow, stream, msgOut, cut,
    \* ---- the start of the child: conn.Start on the client, ServerRaw.Start in the child
    cmdPc, stdinReqs, stdoutPipe, hijackPipe, pipesClosed,
    startPc, brBuf, read, clientStdout, frameIn,
    stdoutLog, dispatched, userLog, stderrLog,
    \* ---- the two mutexes of ClientRaw, and what each task has left to do
    sendMu, mu, task,
    \* ---- what the calls of Result.Err returned, per caller
    errLog,
    \* ---- the stderr tail buffer of conn (tailBuffer)
    buff, tailWrites,
    \* ---- ClientRaw.seq as a uint32 in two 16-bit halves, and the ids issued
    seqHi, seqLo, issued

clientVars == <<closing, shutdown, seq, pending, oob, oobClosed, crashed>>
connVars == <<inPipe, outPipe, connClosed, childExited>>
readerVars == <<rdPc, rdMsg, rdErr>>
rawVars == <<rawPc, callId, callErr, doneCh, timer, sink, sinkClosed, ret>>
initVars == <<stage, initErrc>>
typedVars == <<request, g1Pc, resMsgs, resReceipt, errc, resClosed>>
callVars == <<hPc, hEnq, callMsgs, closed1, closed2, drop, receiptFromServer,
              receiptToServer, messageBuff, size, bodies>>
serverVars == <<srvPc, srvReq, callVars, delayDelivery, optsInit, messagesRaw>>
histVars == <<sentLog, wroteLog, enqueued, dropped, handed, startedAfterClose,
              startedAfterTimeout, inFlightAtClose, closeLog>>
wireVars == <<wirePc, wireMu, wirePipe>>
codecVars == <<codecPc, msgIn, msgNow, stream, msgOut, cut>>
framingVars == <<wireVars, codecVars>>
startVars == <<cmdPc, stdinReqs, stdoutPipe, hijackPipe, pipesClosed,
               startPc, brBuf, read, clientStdout, frameIn,
               stdoutLog, dispatched, userLog, stderrLog>>
\* the client, the pipes and the server at the level of whole frames
lockVars == <<sendMu, mu, task>>
tailVars == <<buff, tailWrites>>
seqVars == <<seqHi, seqLo, issued>>
\* the parts that are looked at on their own
unitVars == <<lockVars, errLog, tailVars, seqVars>>
modelVars == <<clientVars, connVars, readerVars, rawVars, initVars, typedVars, closePc,
               serverVars, histVars>>
vars == <<clientVars, connVars, readerVars, rawVars, initVars, typedVars, closePc,
          serverVars, histVars, framingVars, startVars, unitVars>>

\* ids a client of NumCallers callers and one init exchange can issue
Ids == 1 .. (NumCallers + 1)

\* the zero value of the receipt type R, and the receipt a handler builds itself
ZeroReceipt == [text |-> <<>>, size |-> 0, tag |-> <<>>, lastModified |-> 0]

\* ------------------------------------------------- frames on a byte stream
\* binary.BigEndian.PutUint32 and binary.BigEndian.Uint32 (at index i of bs)
PutUint32(n) ==
    <<(n \div 16777216) % 256, (n \div 65536) % 256, (n \div 256) % 256, n % 256>>
Uint32(bs, i) == bs[i] * 16777216 + bs[i + 1] * 65536 + bs[i + 2] * 256 + bs[i + 3]

\* io.ReadFull(r, buf) with len(buf) = n on a stream holding bs: the buffer (zero
\* where nothing was read), what is left of the stream, and the error
ReadFull(bs, n) ==
    LET k == IF Len(bs) < n THEN Len(bs) ELSE n IN
    [err |-> IF Len(bs) >= n THEN NoErr
             ELSE IF bs = <<>> THEN EOF ELSE ErrUnexpectedEOF,
     got |-> [i \in 1 .. n |-> IF i <= k THEN bs[i] ELSE 0],
     rest |-> SubSeq(bs, k + 1, Len(bs))]

\* the zero Header and the zero Message (var m Message)
ZeroHeader == [ID |-> 0, Version |-> 0, Status |-> 0, Size |-> 0]
EmptyMessage == [Header |-> ZeroHeader, Body |-> <<>>]

\* Header.Write: the bytes written
HeaderWrite(h) == PutUint32(h.ID) \o <<h.Version, h.Status>> \o PutUint32(h.Size)

\* Header.Read into h0 from a stream holding bs
HeaderRead(h0, bs) ==
    LET r == ReadFull(bs, HeaderLen) IN
    IF r.err # NoErr THEN [err |-> r.err, h |-> h0, rest |-> r.rest]
    ELSE [err |-> NoErr,
          h |-> [ID |-> Uint32(r.got, 1), Version |-> r.got[5], Status |-> r.got[6],
                 Size |-> Uint32(r.got, 7)],
          rest |-> r.rest]

\* a variant of Message.Write that trusts the size the caller set
MessageWriteKeepSize(m) == [m |-> m, bytes |-> HeaderWrite(m.Header) \o m.Body]
\* Message.Write: the message as Write leaves it (the receiver is a pointer) and
\* the bytes written
MessageWrite(m) ==
    LET sized == [m EXCEPT !.Header.Size = Len(m.Body)] IN
    [m |-> sized, bytes |-> HeaderWrite(sized.Header) \o sized.Body]

\* Message.Read into m0 from a stream holding bs
MessageRead(m0, bs) ==
    LET hr == HeaderRead(m0.Header, bs) IN
    IF hr.err # NoErr THEN [err |-> hr.err, m |-> m0, rest |-> hr.rest]
    ELSE LET br == ReadFull(hr.rest, hr.h.Size) IN
         [err |-> br.err, m |-> [Header |-> hr.h, Body |-> br.got], rest |-> br.rest]

\* the headers and messages written: ids of one to four bytes, the least and the
\* greatest uint8, sizes the caller set right or wrong, bodies up to MaxBody bytes
HeaderIds == {0, 2, 258, 16909060}
Uint8s == {0, 3, 255}
CallerSizes == {0, 1, 258}
Bodies == UNION {[1 .. n -> {0, 104}] : n \in 0 .. MaxBody}
Messages ==
    [Header : [ID : HeaderIds, Version : Uint8s, Status : Uint8s, Size : CallerSizes],
     Body : Bodies]

\* nothing is written to a stream
NoRead == [err |-> NoErr, m |-> EmptyMessage, rest |-> <<>>]
CodecIdle ==
    /\ codecPc = "idle" /\ msgIn = EmptyMessage /\ msgNow = EmptyMessage
    /\ stream = <<>> /\ msgOut = NoRead /\ cut = FALSE

\* m.Header.Write(&b)
WriteHeader ==
    /\ codecPc = "start"
    /\ stream' = stream \o HeaderWrite(msgIn.Header)
    /\ codecPc' = "header"
    /\ UNCHANGED <<msgIn, msgNow, msgOut, cut, modelVars, wireVars, startVars, unitVars>>

\* m.Write(&b)
WriteMessage ==
    /\ codecPc = "start"
    /\ stream' = stream \o MessageWrite(msgIn).bytes
    /\ msgNow' = MessageWrite(msgIn).m
    /\ codecPc' = "message"
    /\ UNCHANGED <<msgIn, msgOut, cut, modelVars, wireVars, startVars, unitVars>>

\* the stream ends early: the reader gets a strict prefix of what was written
Truncate ==
    /\ codecPc \in {"header", "message"} /\ ~cut
    /\ \E n \in 0 .. (Len(stream) - 1) : stream' = SubSeq(stream, 1, n)
    /\ cut' = TRUE
    /\ UNCHANGED <<codecPc, msgIn, msgNow, msgOut, modelVars, wireVars, startVars, unitVars>>

\* var m2 Message; m2.Header.Read(&b)
ReadHeader ==
    /\ codecPc = "header"
    /\ LET r == HeaderRead(ZeroHeader, stream) IN
       msgOut' = [err |-> r.err, m |-> [Header |-> r.h, Body |-> <<>>], rest |-> r.rest]
    /\ codecPc' = "headerRead"
    /\ UNCHANGED <<msgIn, msgNow, stream, cut, modelVars, wireVars, startVars, unitVars>>

\* var m2 Message; m2.Read(&b)
ReadMessage ==
    /\ codecPc = "message"
    /\ msgOut' = MessageRead(EmptyMessage, stream)
    /\ codecPc' = "messageRead"
    /\ UNCHANGED <<msgIn, msgNow, stream, cut, modelVars, wireVars, startVars, unitVars>>

\* -------------------------------------------------- the start of the child
\* StartClientRaw runs the command and conn.Start scans the child's stdout for
\* serverStarted; in the child, user code runs, then ServerRaw.Start redirects
\* os.Stdout and announces itself on the stdout it was given. Bytes are their
\* ASCII codes.
serverStarted == <<95, 115, 101, 114, 118, 101, 114, 95, 115, 116, 97, 114, 116, 101, 100>>
\* the bytes user code prints: 'h', and the '_' the token begins with
UserBytes == {104, 95}
ErrTimeoutWaitingForServer == <<"timed out waiting for server to start">>

\* bytes.Contains(s, sub)
Contains(s, sub) ==
    \E i \in 0 .. (Len(s) - Len(sub)) : SubSeq(s, i + 1, i + Len(sub)) = sub
\* bytes.Replace(s, sub, nil, 1): s without the first occurrence of sub
Replace(s, sub) ==
    IF ~Contains(s, sub) THEN s
    ELSE LET i == CHOOSE i \in 0 .. (Len(s) - Len(sub)) :
                      /\ SubSeq(s, i + 1, i + Len(sub)) = sub
                      /\ \A j \in 0 .. (i - 1) : SubSeq(s, j + 1, j + Len(sub)) # sub
         IN SubSeq(s, 1, i) \o SubSeq(s, i + Len(sub) + 1, Len(s))

\* the command is about to run, nothing is written or read
StartFresh ==
    /\ cmdPc = "main" /\ stdinReqs = 0 /\ stdoutPipe = <<>> /\ hijackPipe = <<>>
    /\ pipesClosed = FALSE
    /\ startPc = "scanning" /\ brBuf = <<>> /\ read = <<>> /\ clientStdout = <<>>
    /\ frameIn = <<>>
    /\ stdoutLog = <<>> /\ dispatched = <<>> /\ userLog = <<>> /\ stderrLog = <<>>
StartIdle ==
    /\ cmdPc = "idle" /\ stdinReqs = 0 /\ stdoutPipe = <<>> /\ hijackPipe = <<>>
    /\ pipesClosed = FALSE
    /\ startPc = "idle" /\ brBuf = <<>> /\ read = <<>> /\ clientStdout = <<>>
    /\ frameIn = <<>>
    /\ stdoutLog = <<>> /\ dispatched = <<>> /\ userLog = <<>> /\ stderrLog = <<>>

\* a variant of ServerRaw.Start that leaves os.Stdout alone
StdoutKept(pc) == "stdout"
\* what os.Stdout is in the child: the stdout it was given, until ServerRaw.Start
\* sets it to the write end of its own pipe
OsStdout(pc) == IF pc = "main" THEN "stdout" ELSE "pipe"

\* user code in the child prints a byte to os.Stdout, before ServerRaw.Start or
\* (from a handler) after it
UserPrint ==
    /\ cmdPc \in {"main", "serving"}
    /\ \E b \in UserBytes :
          /\ IF cmdPc = "serving" THEN Len(userLog) < MaxPrint /\ b = 104
             ELSE Len(stdoutLog) < MaxPrint
          /\ userLog' = IF cmdPc = "serving" THEN Append(userLog, b) ELSE userLog
          /\ IF OsStdout(cmdPc) = "stdout"
             THEN /\ stdoutPipe' = Append(stdoutPipe, b)
                  /\ stdoutLog' = Append(stdoutLog, b)
                  /\ UNCHANGED hijackPipe
             ELSE /\ hijackPipe' = Append(hijackPipe, b)
                  /\ UNCHANGED <<stdoutPipe, stdoutLog>>
    /\ UNCHANGED <<cmdPc, stdinReqs, pipesClosed, startPc, brBuf, read, clientStdout,
                   frameIn, dispatched, stderrLog, modelVars, framingVars, unitVars>>

\* ServerRaw.Start: os.Stdout = w, then fmt.Fprint(s.out, string(serverStarted)+"\n")
\* on the original stdout, then the server loop
ServerStart ==
    /\ cmdPc = "main"
    /\ cmdPc' = "serving"
    /\ stdoutPipe' = stdoutPipe \o serverStarted \o <<Newline>>
    /\ stdoutLog' = stdoutLog \o serverStarted \o <<Newline>>
    /\ UNCHANGED <<stdinReqs, hijackPipe, pipesClosed, startPc, brBuf, read,
                   clientStdout, frameIn, dispatched, userLog, stderrLog, modelVars,
                   framingVars, unitVars>>

\* io.Copy(os.Stderr, r): the goroutine ServerRaw.Start leaves copying its pipe
CopyToStderr ==
    /\ hijackPipe # <<>>
    /\ stderrLog' = stderrLog \o hijackPipe
    /\ hijackPipe' = <<>>
    /\ UNCHANGED <<cmdPc, stdinReqs, stdoutPipe, pipesClosed, startPc, brBuf, read,
                   clientStdout, frameIn, stdoutLog, dispatched, userLog, modelVars,
                   framingVars, unitVars>>

\* the child's main returns without starting a server
ChildMainExits ==
    /\ cmdPc = "main"
    /\ cmdPc' = "exited"
    /\ UNCHANGED <<stdinReqs, stdoutPipe, hijackPipe, pipesClosed, startPc, brBuf, read,
                   clientStdout, frameIn, stdoutLog, dispatched, userLog, stderrLog,
                   modelVars, framingVars, unitVars>>

\* conn.Start, br.ReadByte() and what follows it: the bufio.Reader fills its buffer
\* with one Read of the pipe when it is empty (a Read returns any part of what the
\* pipe holds), the byte is appended to read, and when read contains serverStarted
\* the rest of read goes to the client's os.Stdout and Start returns nil
StartReadByte ==
    /\ startPc = "scanning"
    /\ \E n \in 0 .. Len(stdoutPipe) :
          /\ IF brBuf = <<>> THEN n > 0 ELSE n = 0
          /\ LET buf == brBuf \o SubSeq(stdoutPipe, 1, n)
                 got == Append(read, Head(buf))
             IN /\ brBuf' = Tail(buf)
                /\ stdoutPipe' = SubSeq(stdoutPipe, n + 1, Len(stdoutPipe))
                /\ read' = got
                /\ IF Contains(got, serverStarted)
                   THEN /\ clientStdout' = Replace(got, serverStarted)
                        /\ startPc' = "started"
                   ELSE UNCHANGED <<clientStdout, startPc>>
    /\ UNCHANGED <<cmdPc, stdinReqs, hijackPipe, pipesClosed, frameIn, stdoutLog,
                   dispatched, userLog, stderrLog, modelVars, framingVars, unitVars>>

\* conn.Start, br.ReadByte() on a drained pipe whose writer is gone: errc <- err
StartReadEOF ==
    /\ startPc = "scanning" /\ brBuf = <<>> /\ stdoutPipe = <<>> /\ cmdPc = "exited"
    /\ startPc' = "failed"
    /\ UNCHANGED <<cmdPc, stdinReqs, stdoutPipe, hijackPipe, pipesClosed, brBuf, read,
                   clientStdout, frameIn, stdoutLog, dispatched, userLog, stderrLog,
                   modelVars, framingVars, unitVars>>

\* conn.Start, case <-ctx.Done(): return ErrTimeoutWaitingForServer; StartClientRaw
\* returns the error and does nothing else
StartTimeout ==
    /\ startPc = "scanning"
    /\ startPc' = "timeout"
    /\ UNCHANGED <<cmdPc, stdinReqs, stdoutPipe, hijackPipe, pipesClosed, brBuf, read,
                   clientStdout, frameIn, stdoutLog, dispatched, userLog, stderrLog,
                   modelVars, framingVars, unitVars>>

\* what StartClientRaw returns: a client or nil, and the error
StartClientRawReturn ==
    CASE startPc = "timeout" ->
            [client |-> FALSE,
             err |-> addErrContext("failed to start server", ErrTimeoutWaitingForServer)]
      [] startPc = "failed" ->
            [client |-> FALSE, err |-> addErrContext("failed to start server", EOF)]
      [] OTHER -> [client |-> TRUE, err |-> NoErr]

\* the frames the dispatcher has written (a frame here has a body of a byte at most)
StartFrames == Len(dispatched) \div HeaderLen
\* the client writes a request frame to the child's stdin (ClientRaw.send)
StartSend ==
    /\ startPc = "started" /\ ~pipesClosed
    /\ stdinReqs + StartFrames < MaxStartFrames
    /\ stdinReqs' = stdinReqs + 1
    /\ UNCHANGED <<cmdPc, stdoutPipe, hijackPipe, pipesClosed, startPc, brBuf, read,
                   clientStdout, frameIn, stdoutLog, dispatched, userLog, stderrLog,
                   modelVars, framingVars, unitVars>>

\* the server reads a request and writes the frame that answers it through the
\* dispatcher: Message.Write on s.out
StartDispatch ==
    /\ cmdPc = "serving" /\ stdinReqs > 0
    /\ stdinReqs' = stdinReqs - 1
    /\ \E body \in {<<>>, <<104>>} :
          LET m == [Header |-> [ID |-> 1, Version |-> 0, Status |-> MessageStatusOK,
                                Size |-> 0],
                    Body |-> body]
              bytes == MessageWrite(m).bytes
          IN /\ stdoutPipe' = stdoutPipe \o bytes
             /\ stdoutLog' = stdoutLog \o bytes
             /\ dispatched' = dispatched \o bytes
    /\ UNCHANGED <<cmdPc, hijackPipe, pipesClosed, startPc, brBuf, read, clientStdout,
                   frameIn, userLog, stderrLog, modelVars, framingVars, unitVars>>

\* ClientRaw.input, one Read of the conn by io.ReadFull: the reader goroutine reads
\* the pipe itself, not the bufio.Reader of conn.Start
StartFrameRead ==
    /\ startPc = "started" /\ ~pipesClosed
    /\ \E n \in 1 .. Len(stdoutPipe) :
          /\ frameIn' = frameIn \o SubSeq(stdoutPipe, 1, n)
          /\ stdoutPipe' = SubSeq(stdoutPipe, n + 1, Len(stdoutPipe))
    /\ UNCHANGED <<cmdPc, stdinReqs, hijackPipe, pipesClosed, startPc, brBuf, read,
                   clientStdout, stdoutLog, dispatched, userLog, stderrLog, modelVars,
                   framingVars, unitVars>>

\* ClientRaw.Close on a started client, conn.Close: both pipes are closed and the
\* child, which ends itself on EOF, is waited for up to a second
StartClose ==
    /\ startPc = "started" /\ ~pipesClosed
    /\ pipesClosed' = TRUE
    /\ cmdPc' \in {cmdPc, "exited"}
    /\ UNCHANGED <<stdinReqs, stdoutPipe, hijackPipe, startPc, brBuf, read,
                   clientStdout, frameIn, stdoutLog, dispatched, userLog, stderrLog,
                   modelVars, framingVars, unitVars>>

\* ------------------------------------------------ the writers of the pipes
\* The callers write request frames to the child's stdin through ClientRaw.send;
\* callRaw and the goroutine that forwards standalone messages write to the
\* child's stdout through messageDispatcher.SendMessage.
CallRawWriter == NumCallers + 1
ForwardWriter == NumCallers + 2
Writers == Callers \cup {CallRawWriter, ForwardWriter}
PipeOf(w) == IF w \in Callers THEN "stdin" ELSE "stdout"

WireIdle ==
    /\ wirePc = [w \in Writers |-> [pc |-> "idle", n |-> 0]]
    /\ wireMu = [p \in {"stdin", "stdout"} |-> 0]
    /\ wirePipe = [p \in {"stdin", "stdout"} |-> <<>>]
\* ------------------------------------------- the two locks of ClientRaw
\* The tasks that take the locks: the callers of Execute, the reader goroutine and
\* a caller of Close.  Each has a list of the operations it has left to do.
ReaderTask == NumCallers + 1
CloserTask == NumCallers + 2
Tasks == Callers \cup {ReaderTask, CloserTask}
NoTask == 0

Lock(m) == [op |-> "Lock", m |-> m]
Unlock(m) == [op |-> "Unlock", m |-> m]
Do(what) == [op |-> what, m |-> "none"]

\* Close: both locks, released by the deferred calls in reverse order
closeOps == <<Lock("sendMu"), Lock("mu"), Do("close"), Unlock("mu"), Unlock("sendMu")>>
\* send: the check under mu, then the write with sendMu still held
sendOps ==
    <<Lock("sendMu"), Lock("mu"), Do("check"), Unlock("mu"), Do("Write"), Unlock("sendMu")>>
\* the return of send when the client is shut down
sendRefusedOps == <<Unlock("mu"), Unlock("sendMu")>>
\* newCall, which ends in a call of send
newCallOps == <<Lock("mu"), Do("newCall"), Unlock("mu")>> \o sendOps
\* the return of newCall when the client is shut down
newCallRefusedOps == <<Unlock("mu")>>
\* one iteration of the reader's loop
inputOps == <<Do("Read"), Lock("mu"), Do("deliver"), Unlock("mu"), Do("continue")>>
\* a variant of the reader's teardown that takes the state lock first
teardownMuFirst ==
    <<Lock("mu"), Lock("sendMu"), Do("terminate"), Unlock("mu"), Unlock("sendMu")>>
\* the reader's teardown after its loop
teardownOps ==
    <<Lock("sendMu"), Lock("mu"), Do("terminate"), Unlock("mu"), Unlock("sendMu")>>

\* no task is in a locked section
LocksIdle ==
    /\ sendMu = NoTask /\ mu = NoTask
    /\ task = [t \in Tasks |-> <<>>]
\* the client as StartClientRaw returns it: the reader goroutine is in its loop
LocksStart ==
    /\ sendMu = NoTask /\ mu = NoTask
    /\ task = [t \in Tasks |-> IF t = ReaderTask THEN inputOps ELSE <<>>]

\* c.seq++ on a uint32: the successor modulo 2^32
Inc32(hi, lo) ==
    IF lo = Half - 1 THEN <<(hi + 1) % Half, 0>> ELSE <<hi, lo + 1>>

\* the counter of a client that has made the init exchange only, and of one that
\* has made all but three of the calls a uint32 can number
SeqStarts == {<<0, 1>>, <<Half - 1, Half - 3>>}

\* no call of Result.Err has been made
ErrIdle == errLog = <<>>
\* the tail buffer as newConn makes it: empty
TailIdle == buff = 0 /\ tailWrites = 0
\* the counter after the init exchange of StartClient, which took id 1
SeqIdle == seqHi = 0 /\ seqLo = 1 /\ issued = <<>>
UnitsIdle == LocksIdle /\ ErrIdle /\ TailIdle /\ SeqIdle

FramingIdle == WireIdle /\ CodecIdle /\ StartIdle

\* a variant of the locks that lets every writer in
MuIgnored(p) == TRUE
\* sendMu (stdin) or the dispatcher's mu (stdout) is free
MuFree(p) == wireMu[p] = 0

\* c.sendMu.Lock() in send, s.mu.Lock() in SendMessage
WLock(w) ==
    /\ wirePc[w].pc = "idle" /\ wirePc[w].n < MaxFrames
    /\ MuFree(PipeOf(w))
    /\ wireMu' = [wireMu EXCEPT ![PipeOf(w)] = w]
    /\ wirePc' = [wirePc EXCEPT ![w].pc = "locked"]
    /\ UNCHANGED <<wirePipe, modelVars, codecVars, startVars, unitVars>>

\* the bytes a writer puts on its pipe, marked with the frame they belong to
Chunk(w, part) == [w |-> w, n |-> wirePc[w].n, part |-> part]

\* Message.Write, first half: Header.Write is one Write of HeaderLen bytes
WHeader(w) ==
    /\ wirePc[w].pc = "locked"
    /\ wirePipe' = [wirePipe EXCEPT ![PipeOf(w)] = Append(@, Chunk(w, "header"))]
    /\ wirePc' = [wirePc EXCEPT ![w].pc = "header"]
    /\ UNCHANGED <<wireMu, modelVars, codecVars, startVars, unitVars>>

\* Message.Write, second half: w.Write(m.Body), which the pipe may take in two parts
WBody(w) ==
    /\ wirePc[w].pc \in {"header", "half"}
    /\ wirePipe' = [wirePipe EXCEPT ![PipeOf(w)] = Append(@, Chunk(w, "body"))]
    /\ wirePc' = [wirePc EXCEPT ![w].pc = IF @ = "header" THEN "half" ELSE "body"]
    /\ UNCHANGED <<wireMu, modelVars, codecVars, startVars, unitVars>>

\* the deferred Unlock
WUnlock(w) ==
    /\ wirePc[w].pc = "body"
    /\ wireMu' = [wireMu EXCEPT ![PipeOf(w)] = 0]
    /\ wirePc' = [wirePc EXCEPT ![w] = [pc |-> "idle", n |-> @.n + 1]]
    /\ UNCHANGED <<wirePipe, modelVars, codecVars, startVars, unitVars>>

\* the state in which StartClientRaw has returned and StartClient is about to call
\* Client.init
InitConstruct ==
    /\ closing = FALSE /\ shutdown = FALSE /\ seq = 0 /\ pending = {}
    /\ oob = <<>> /\ oobClosed = FALSE
    /\ crashed = "no"
    /\ inPipe = <<>> /\ outPipe = <<>> /\ connClosed = FALSE /\ childExited = FALSE
    /\ rdPc = "read" /\ rdMsg = ZeroMessage /\ rdErr = NoErr
    /\ rawPc = [s \in Slots |-> "idle"]
    /\ callId = [s \in Slots |-> 0]
    /\ callErr = [s \in Slots |-> NoErr]
    /\ doneCh = [s \in Slots |-> FALSE]
    /\ timer = [s \in Slots |-> "off"]
    /\ sink = [s \in Slots |-> <<>>]
    /\ sinkClosed = [s \in Slots |-> FALSE]
    /\ ret = [s \in Slots |-> NoErr]
    /\ stage = "start" /\ initErrc = <<>>
    /\ request = [s \in Slots |-> <<0>>]
    /\ g1Pc = [c \in Callers |-> "idle"]
    /\ resMsgs = [c \in Callers |-> <<>>]
    /\ resReceipt = [c \in Callers |-> <<>>]
    /\ errc = [c \in Callers |-> <<>>]
    /\ resClosed = [c \in Callers |-> FALSE]
    /\ closePc = "idle"
    /\ srvPc = "read" /\ srvReq = ZeroMessage /\ hPc = "none" /\ hEnq = 0
    /\ callMsgs = <<>> /\ closed1 = FALSE /\ closed2 = FALSE /\ drop = FALSE
    /\ receiptFromServer = <<>> /\ receiptToServer = <<>> /\ messageBuff = <<>>
    /\ size = 0 /\ bodies = <<>>
    /\ delayDelivery \in BOOLEAN
    /\ optsInit \in BOOLEAN
    /\ messagesRaw = <<>>
    /\ sentLog = <<>> /\ wroteLog = <<>>
    /\ enqueued = [i \in Ids |-> <<>>]
    /\ dropped = {}
    /\ handed = [i \in Ids |-> <<>>]
    /\ startedAfterClose = [c \in Callers |-> FALSE]
    /\ startedAfterTimeout = [c \in Callers |-> FALSE]
    /\ inFlightAtClose = {}
    /\ closeLog = <<>>
    /\ FramingIdle /\ UnitsIdle

\* the frames of a successful init exchange
InitRequestFrame == Frame(1, MessageStatusInitServer, Encode(<<0>>))
InitReplyFrame == Frame(1, MessageStatusOK, NilBody)

\* the state in which StartClient has returned the client after a successful init
\* exchange: id 1 is used, its call is done and removed from the pending table;
\* the server runs with one of the given settings of DelayDelivery
Ready(delays) ==
    /\ closing = FALSE /\ shutdown = FALSE /\ seq = 1 /\ pending = {}
    /\ oob = <<>> /\ oobClosed = FALSE
    /\ crashed = "no"
    /\ inPipe = <<>> /\ outPipe = <<>> /\ connClosed = FALSE /\ childExited = FALSE
    /\ rdPc = "read" /\ rdMsg = InitReplyFrame /\ rdErr = NoErr
    /\ rawPc = [s \in Slots |-> IF s = InitSlot THEN "done" ELSE "idle"]
    /\ callId = [s \in Slots |-> IF s = InitSlot THEN 1 ELSE 0]
    /\ callErr = [s \in Slots |-> NoErr]
    /\ doneCh = [s \in Slots |-> FALSE]
    /\ timer = [s \in Slots |-> "off"]
    /\ sink = [s \in Slots |-> <<>>]
    /\ sinkClosed = [s \in Slots |-> s = InitSlot]
    /\ ret = [s \in Slots |-> NoErr]
    /\ stage = "ready" /\ initErrc = <<>>
    /\ request = [s \in Slots |-> <<0>>]
    /\ g1Pc = [c \in Callers |-> "idle"]
    /\ resMsgs = [c \in Callers |-> <<>>]
    /\ resReceipt = [c \in Callers |-> <<>>]
    /\ errc = [c \in Callers |-> <<>>]
    /\ resClosed = [c \in Callers |-> FALSE]
    /\ closePc = "idle"
    /\ srvPc = "read" /\ srvReq = ZeroMessage /\ hPc = "none" /\ hEnq = 0
    /\ callMsgs = <<>> /\ closed1 = FALSE /\ closed2 = FALSE /\ drop = FALSE
    /\ receiptFromServer = <<>> /\ receiptToServer = <<>> /\ messageBuff = <<>>
    /\ size = 0 /\ bodies = <<>>
    /\ delayDelivery \in delays
    /\ optsInit = TRUE
    /\ messagesRaw = <<>>
    /\ sentLog = <<InitRequestFrame>> /\ wroteLog = <<InitReplyFrame>>
    /\ enqueued = [i \in Ids |-> <<>>]
    /\ dropped = {}
    /\ handed = [i \in Ids |-> <<>>]
    /\ startedAfterClose = [c \in Callers |-> FALSE]
    /\ startedAfterTimeout = [c \in Callers |-> FALSE]
    /\ inFlightAtClose = {}
    /\ closeLog = <<>>

\* concurrent callers on a server that delivers each message as it is produced
Init == Ready({FALSE}) /\ FramingIdle /\ UnitsIdle
\* one caller on a server with either setting
InitStream == Ready(BOOLEAN) /\ FramingIdle /\ UnitsIdle
\* StartClientRaw has built the command and calls conn.Start
InitStart == Ready({FALSE}) /\ WireIdle /\ CodecIdle /\ StartFresh /\ UnitsIdle
\* the client with its reader in the loop, and nobody in a locked section
InitLocks == Ready({FALSE}) /\ FramingIdle /\ LocksStart /\ ErrIdle /\ TailIdle /\ SeqIdle
\* a client whose counter is at one of the starts
InitSeq ==
    /\ Ready({FALSE}) /\ FramingIdle /\ LocksIdle /\ ErrIdle /\ TailIdle
    /\ \E st \in SeqStarts : seqHi = st[1] /\ seqLo = st[2]
    /\ issued = <<>>
\* a message about to be written to an empty stream
InitMessage ==
    /\ Ready({FALSE}) /\ WireIdle /\ StartIdle /\ UnitsIdle
    /\ codecPc = "start" /\ msgIn \in Messages /\ msgNow = msgIn
    /\ stream = <<>> /\ msgOut = NoRead /\ cut = FALSE

\* the client process is running (a panic in any goroutine ends the process)
ClientAlive == crashed = "no"
\* the child is running and both pipes are open
ServerAlive == ~connClosed /\ ~childExited /\ crashed = "no"

\* ------------------------------------------------------------ ClientRaw
\* call.done(): a non-blocking send on the call's one-slot Done channel
done(ch, s) == [ch EXCEPT ![s] = TRUE]

\* the frame newCall builds: the typed Execute leaves status 0, init sets InitServer
RequestFrame(s, id) ==
    Frame(id, IF s = InitSlot THEN MessageStatusInitServer ELSE MessageStatusOK,
          Encode(request[s]))

\* a variant of newCall's check that forgets a Close in progress
RefusedWhenShutdown == shutdown
\* newCall's check: the client is, or is about to be, shut down
Refused == shutdown \/ closing

\* a variant in which nobody waits for the reader
StateLockIgnored == TRUE
\* c.mu is free: the reader does not sit on it, blocked in a send on a full channel
StateLockFree == rdPc # "locked"

\* ClientRaw.newCall up to its call of send: the whole critical section on mu
NewCall(s) ==
    /\ ClientAlive /\ rawPc[s] = "newCall" /\ StateLockFree
    /\ seq' = seq + 1
    /\ callId' = [callId EXCEPT ![s] = seq + 1]
    /\ IF Refused
       THEN /\ callErr' = [callErr EXCEPT ![s] = ErrShutdown]
            /\ doneCh' = done(doneCh, s)
            /\ rawPc' = [rawPc EXCEPT ![s] = "select"]
            /\ UNCHANGED pending
       ELSE /\ pending' = pending \cup {seq + 1}
            /\ rawPc' = [rawPc EXCEPT ![s] = "send"]
            /\ UNCHANGED <<callErr, doneCh>>
    /\ UNCHANGED <<closing, shutdown, oob, oobClosed, crashed, connVars,
                   readerVars, timer, sink, sinkClosed, ret, initVars, typedVars,
                   closePc, serverVars, histVars,
                   framingVars, startVars, unitVars>>

\* ClientRaw.send, which holds the write lock throughout: the check of closing and
\* shutdown under mu, then Request.Write.  An error of send makes Execute return at
\* once (its deferred close(messages) runs); otherwise Execute arms its timer and
\* waits.  No step of this model keeps a lock between two steps, so the locks
\* themselves are not state.
Send(s) ==
    /\ ClientAlive /\ rawPc[s] = "send" /\ StateLockFree
    /\ IF closing \/ shutdown
       THEN /\ ret' = [ret EXCEPT ![s] = ErrShutdown]
            /\ sinkClosed' = [sinkClosed EXCEPT ![s] = TRUE]
            /\ rawPc' = [rawPc EXCEPT ![s] = "returned"]
            /\ UNCHANGED <<inPipe, sentLog, timer>>
       ELSE IF childExited
       THEN /\ ret' = [ret EXCEPT ![s] = ErrBrokenPipe]
            /\ sinkClosed' = [sinkClosed EXCEPT ![s] = TRUE]
            /\ rawPc' = [rawPc EXCEPT ![s] = "returned"]
            /\ UNCHANGED <<inPipe, sentLog, timer>>
       ELSE /\ inPipe' = Append(inPipe, RequestFrame(s, callId[s]))
            /\ sentLog' = Append(sentLog, RequestFrame(s, callId[s]))
            /\ timer' = [timer EXCEPT ![s] = "armed"]
            /\ rawPc' = [rawPc EXCEPT ![s] = "select"]
            /\ UNCHANGED <<ret, sinkClosed>>
    /\ UNCHANGED <<clientVars, outPipe, connClosed, childExited, readerVars, callId,
                   callErr, doneCh, sink, initVars, typedVars, closePc, serverVars,
                   wroteLog, enqueued, dropped, handed, startedAfterClose, startedAfterTimeout,
                   inFlightAtClose, closeLog,
                   framingVars, startVars, unitVars>>

\* the calls whose timer has elapsed
Elapsed == {s \in Slots : timer[s] = "fired" \/ ret[s] = ErrTimeoutWaitingForCall}

\* the timer of Execute elapses while the call waits in its select; at most max
\* timers elapse
TimerFireWithin(s, max) ==
    /\ ClientAlive /\ rawPc[s] = "select" /\ timer[s] = "armed" /\ ~doneCh[s]
    /\ Cardinality(Elapsed) < max
    /\ timer' = [timer EXCEPT ![s] = "fired"]
    /\ UNCHANGED <<clientVars, connVars, readerVars, rawPc, callId, callErr, doneCh,
                   sink, sinkClosed, ret, initVars, typedVars, closePc, serverVars,
                   histVars,
                   framingVars, startVars, unitVars>>
TimerFire(s) == TimerFireWithin(s, MaxTimeouts)

\* Execute's select takes call.Done; the deferred close(messages) runs
ExecuteDone(s) ==
    /\ ClientAlive /\ rawPc[s] = "select" /\ doneCh[s]
    /\ doneCh' = [doneCh EXCEPT ![s] = FALSE]
    /\ ret' = [ret EXCEPT ![s] = IF callErr[s] = NoErr THEN NoErr
                                  ELSE addErrContext("execute", callErr[s])]
    /\ sinkClosed' = [sinkClosed EXCEPT ![s] = TRUE]
    /\ rawPc' = [rawPc EXCEPT ![s] = "returned"]
    /\ timer' = [timer EXCEPT ![s] = "off"]
    /\ UNCHANGED <<clientVars, connVars, readerVars, callId, callErr, sink,
                   initVars, typedVars, closePc, serverVars, histVars,
                   framingVars, startVars, unitVars>>

\* Execute's select takes timer.C; the deferred close(messages) runs
ExecuteTimeout(s) ==
    /\ ClientAlive /\ rawPc[s] = "select" /\ timer[s] = "fired"
    /\ ret' = [ret EXCEPT ![s] = ErrTimeoutWaitingForCall]
    /\ sinkClosed' = [sinkClosed EXCEPT ![s] = TRUE]
    /\ rawPc' = [rawPc EXCEPT ![s] = "returned"]
    /\ timer' = [timer EXCEPT ![s] = "off"]
    /\ UNCHANGED <<clientVars, connVars, readerVars, callId, callErr, doneCh,
                   sink, initVars, typedVars, closePc, serverVars, histVars,
                   framingVars, startVars, unitVars>>

\* the goroutine that called rawClient.Execute publishes its error, if any
PublishErr(s) ==
    /\ ClientAlive /\ rawPc[s] = "returned"
    /\ rawPc' = [rawPc EXCEPT ![s] = "done"]
    /\ IF ret[s] = NoErr
       THEN UNCHANGED <<initErrc, errc>>
       ELSE IF s = InitSlot
       THEN /\ initErrc' = Append(initErrc, addErrContext("failed to execute init", ret[s]))
            /\ UNCHANGED errc
       ELSE /\ Len(errc[s]) < 1
            /\ errc' = [errc EXCEPT ![s] = Append(@, addErrContext("failed to execute", ret[s]))]
            /\ UNCHANGED initErrc
    /\ UNCHANGED <<clientVars, connVars, readerVars, callId, callErr, doneCh, timer,
                   sink, sinkClosed, ret, stage, request, g1Pc, resMsgs, resReceipt,
                   resClosed, closePc, serverVars, histVars,
                   framingVars, startVars, unitVars>>

\* ----------------------------------------------------- ClientRaw.input
\* message.Read(c.conn): the next frame, or the read error
ReaderRead ==
    /\ ClientAlive /\ rdPc = "read"
    /\ IF connClosed
       THEN /\ rdErr' = ErrClosed /\ rdPc' = "teardown"
            /\ UNCHANGED <<rdMsg, outPipe>>
       ELSE IF outPipe # <<>>
       THEN /\ rdMsg' = Head(outPipe) /\ outPipe' = Tail(outPipe)
            /\ rdPc' = "dispatch"
            /\ UNCHANGED rdErr
       ELSE /\ childExited
            /\ rdErr' = EOF /\ rdPc' = "teardown"
            /\ UNCHANGED <<rdMsg, outPipe>>
    /\ UNCHANGED <<clientVars, inPipe, connClosed, childExited, rawVars, initVars,
                   typedVars, closePc, serverVars, histVars,
                   framingVars, startVars, unitVars>>

\* a send on a channel panics when the channel is closed
SendPanics(s) == sinkClosed[s]

\* a variant of the lookup that takes the most recent call
SlotOfLatest(id) == CHOOSE s \in Slots : callId[s] = seq
\* c.pending[id]: the call that was issued the id
SlotOf(id) == CHOOSE s \in Slots : callId[s] = id

\* the channel the reader is about to send the frame on is open and full
SendWouldBlock ==
    IF rdMsg.id = 0 THEN ~oobClosed /\ Len(oob) >= ChanCap
    ELSE /\ rdMsg.id \in pending
         /\ ~SendPanics(SlotOf(rdMsg.id))
         /\ Len(sink[SlotOf(rdMsg.id)]) >= ChanCap

\* c.mu.Lock() in the reader's loop, followed by a send that finds its channel
\* full: the reader waits for a receiver with c.mu held
ReaderBlocks ==
    /\ ClientAlive /\ rdPc = "dispatch" /\ SendWouldBlock
    /\ rdPc' = "locked"
    /\ UNCHANGED <<clientVars, connVars, rdMsg, rdErr, rawVars, initVars, typedVars,
                   closePc, serverVars, histVars, framingVars, startVars, unitVars>>

\* the reader attaches the frame it read to its pending call (under mu)
ReaderDispatch ==
    /\ ClientAlive /\ rdPc \in {"dispatch", "locked"}
    /\ LET id == rdMsg.id IN
       IF id = 0
       THEN \* a standalone message
            /\ IF oobClosed
               THEN crashed' = "send on closed channel" /\ UNCHANGED oob
               ELSE /\ Len(oob) < ChanCap
                    /\ oob' = Append(oob, rdMsg) /\ UNCHANGED crashed
            /\ UNCHANGED <<pending, sink, doneCh>>
       ELSE IF id \notin pending
       THEN /\ crashed' = "call not found"
            /\ UNCHANGED <<pending, sink, doneCh, oob>>
       ELSE LET s == SlotOf(id) IN
            IF rdMsg.status = MessageStatusContinue
            THEN IF SendPanics(s)
                 THEN /\ crashed' = "send on closed channel"
                      /\ UNCHANGED <<pending, sink, doneCh, oob>>
                 ELSE /\ Len(sink[s]) < ChanCap
                      /\ sink' = [sink EXCEPT ![s] = Append(@, rdMsg)]
                      /\ UNCHANGED <<pending, doneCh, oob, crashed>>
            ELSE /\ pending' = pending \ {id}
                 /\ IF SendPanics(s)
                    THEN /\ crashed' = "send on closed channel"
                         /\ UNCHANGED <<sink, doneCh, oob>>
                    ELSE /\ Len(sink[s]) < ChanCap
                         /\ sink' = [sink EXCEPT ![s] = Append(@, rdMsg)]
                         /\ doneCh' = done(doneCh, s)
                         /\ UNCHANGED <<oob, crashed>>
    /\ rdPc' = "read"
    /\ UNCHANGED <<closing, shutdown, seq, oobClosed, connVars, rdMsg,
                   rdErr, rawPc, callId, callErr, timer, sinkClosed, ret, initVars,
                   typedVars, closePc, serverVars, histVars,
                   framingVars, startVars, unitVars>>

\* a variant of the teardown that hands the read error on as it is
TeardownErrAsRead == rdErr
\* the error the pending calls get
TeardownErr ==
    IF rdErr = EOF \/ rdErr = ErrClosed
    THEN IF closing THEN ErrShutdown ELSE ErrUnexpectedEOF
    ELSE rdErr

\* the pending calls; Error and Done of a call whose Execute has returned are
\* never read again, so only the calls still in Execute are kept up to date
PendingSlots == {s \in Slots : callId[s] \in pending /\ rawPc[s] \in {"send", "select"}}

\* after the loop, under both locks: set shutdown and terminate the pending calls
ReaderTeardown ==
    /\ ClientAlive /\ rdPc = "teardown"
    /\ shutdown' = TRUE
    /\ callErr' = [s \in Slots |-> IF s \in PendingSlots THEN TeardownErr ELSE callErr[s]]
    /\ doneCh' = [s \in Slots |-> IF s \in PendingSlots THEN TRUE ELSE doneCh[s]]
    /\ rdPc' = "exited"
    /\ UNCHANGED <<closing, seq, pending, oob, oobClosed, crashed, connVars,
                   rdMsg, rdErr, rawPc, callId, timer, sink, sinkClosed, ret,
                   initVars, typedVars, closePc, serverVars, histVars,
                   framingVars, startVars, unitVars>>

\* ------------------------------------------------ StartClient, Client.init
\* Client.init encodes the configuration and starts the goroutine that runs the
\* raw Execute of the init exchange
ClientInit ==
    /\ ClientAlive /\ stage = "start"
    /\ \E cfg \in {<<0>>, BadValue} :
          /\ request' = [request EXCEPT ![InitSlot] = cfg]
          /\ IF ~CanEncode(cfg)
             THEN stage' = "failed" /\ UNCHANGED rawPc
             ELSE /\ stage' = "init"
                  /\ rawPc' = [rawPc EXCEPT ![InitSlot] = "newCall"]
    /\ UNCHANGED <<clientVars, connVars, readerVars, callId, callErr, doneCh, timer,
                   sink, sinkClosed, ret, initErrc, g1Pc, resMsgs, resReceipt, errc,
                   resClosed, closePc, serverVars, histVars,
                   framingVars, startVars, unitVars>>

\* the select of Client.init on errc and messagec; a receive on the closed and
\* drained messagec yields the zero Message
InitSelect ==
    /\ ClientAlive /\ stage = "init"
    /\ \/ /\ initErrc # <<>>
          /\ stage' = "failed"
          /\ UNCHANGED sink
       \/ /\ sink[InitSlot] # <<>>
          /\ stage' = IF Head(sink[InitSlot]).status # MessageStatusOK
                      THEN "failed" ELSE "ready"
          /\ sink' = [sink EXCEPT ![InitSlot] = Tail(@)]
       \/ /\ sink[InitSlot] = <<>> /\ sinkClosed[InitSlot]
          /\ stage' = IF ZeroMessage.status # MessageStatusOK THEN "failed" ELSE "ready"
          /\ UNCHANGED sink
    /\ UNCHANGED <<clientVars, connVars, readerVars, rawPc, callId, callErr, doneCh,
                   timer, sinkClosed, ret, initErrc, typedVars, closePc, serverVars,
                   histVars,
                   framingVars, startVars, unitVars>>

\* ------------------------------------------------ Client.Execute, Result
IsServerError(status) ==
    status >= MessageStatusErrDecodeFailed /\ status <= MessageStatusSystemReservedMax

\* the error the typed client makes of a frame with a system reserved error status
StatusErr(status) ==
    IF status = MessageStatusErrDecodeFailed THEN <<"error code 3">>
    ELSE IF status = MessageStatusErrEncodeFailed THEN <<"error code 4">>
    ELSE IF status = MessageStatusErrInitServerFailed THEN <<"error code 5">>
    ELSE <<"error code">>

\* Client.Execute: encode the request, start the two goroutines, return the Result
TypedExecute(c) ==
    /\ ClientAlive /\ stage = "ready" /\ g1Pc[c] = "idle"
    \* the callers are alike: they are numbered in the order of their calls
    /\ \A b \in Callers : b < c => g1Pc[b] # "idle"
    /\ \E q \in {RequestOf(c), BadRequest, BadValue} :
          /\ request' = [request EXCEPT ![c] = q]
          /\ IF ~CanEncode(q)
             THEN /\ errc' = [errc EXCEPT ![c] = Append(@, <<"failed to encode request">>)]
                  /\ resClosed' = [resClosed EXCEPT ![c] = TRUE]
                  /\ g1Pc' = [g1Pc EXCEPT ![c] = "done"]
                  /\ UNCHANGED rawPc
             ELSE /\ g1Pc' = [g1Pc EXCEPT ![c] = "recv"]
                  /\ rawPc' = [rawPc EXCEPT ![c] = "newCall"]
                  /\ UNCHANGED <<errc, resClosed>>
    /\ startedAfterClose' = [startedAfterClose EXCEPT ![c] = (closePc = "returned")]
    /\ startedAfterTimeout' = [startedAfterTimeout EXCEPT ![c] =
                                  \E s \in Slots : ret[s] = ErrTimeoutWaitingForCall]
    /\ UNCHANGED <<clientVars, connVars, readerVars, callId, callErr, doneCh, timer,
                   sink, sinkClosed, ret, initVars, resMsgs, resReceipt, closePc,
                   serverVars, sentLog, wroteLog, enqueued, dropped, handed, inFlightAtClose, closeLog,
                   framingVars, startVars, unitVars>>

\* one iteration of `for message := range messagesRaw` in Client.Execute
G1Recv(c) ==
    /\ ClientAlive /\ g1Pc[c] = "recv" /\ sink[c] # <<>>
    /\ LET m == Head(sink[c]) IN
       /\ sink' = [sink EXCEPT ![c] = Tail(@)]
       /\ IF IsServerError(m.status)
          THEN /\ Len(errc[c]) < 1
               /\ errc' = [errc EXCEPT ![c] = Append(@, StatusErr(m.status))]
               /\ g1Pc' = [g1Pc EXCEPT ![c] = "done"]
               /\ resClosed' = [resClosed EXCEPT ![c] = TRUE]
               /\ UNCHANGED <<resMsgs, resReceipt, crashed>>
          ELSE IF m.status = MessageStatusInitServer
          THEN /\ crashed' = "unexpected status"
               /\ UNCHANGED <<errc, g1Pc, resClosed, resMsgs, resReceipt>>
          ELSE IF ~CanDecode(m.body)
          THEN /\ Len(errc[c]) < 1
               /\ errc' = [errc EXCEPT ![c] = Append(@, <<"decode failed">>)]
               /\ g1Pc' = [g1Pc EXCEPT ![c] = "done"]
               /\ resClosed' = [resClosed EXCEPT ![c] = TRUE]
               /\ UNCHANGED <<resMsgs, resReceipt, crashed>>
          ELSE IF m.status = MessageStatusContinue
          THEN /\ Len(resMsgs[c]) < ChanCap
               /\ resMsgs' = [resMsgs EXCEPT ![c] = Append(@, Decode(m.body))]
               /\ UNCHANGED <<errc, g1Pc, resClosed, resReceipt, crashed>>
          ELSE /\ Len(resReceipt[c]) < 1
               /\ resReceipt' = [resReceipt EXCEPT ![c] = Append(@, Decode(m.body))]
               /\ g1Pc' = [g1Pc EXCEPT ![c] = "done"]
               /\ resClosed' = [resClosed EXCEPT ![c] = TRUE]
               /\ UNCHANGED <<errc, resMsgs, crashed>>
    /\ UNCHANGED <<closing, shutdown, seq, pending, oob, oobClosed,
                   connVars, readerVars, rawPc, callId, callErr, doneCh, timer,
                   sinkClosed, ret, initVars, request, closePc, serverVars, histVars,
                   framingVars, startVars, unitVars>>

\* messagesRaw is closed and drained: the loop ends and the deferred result.close() runs
G1End(c) ==
    /\ ClientAlive /\ g1Pc[c] = "recv" /\ sink[c] = <<>> /\ sinkClosed[c]
    /\ g1Pc' = [g1Pc EXCEPT ![c] = "done"]
    /\ resClosed' = [resClosed EXCEPT ![c] = TRUE]
    /\ UNCHANGED <<clientVars, connVars, readerVars, rawVars, initVars, request,
                   resMsgs, resReceipt, errc, closePc, serverVars, histVars,
                   framingVars, startVars, unitVars>>

\* Result.Err: a select with a default on the errors channel, which receives the
\* error when there is one and returns nil when there is none
ResultErr(c) ==
    /\ g1Pc[c] # "idle" /\ Len(errLog) < MaxErrCalls
    /\ IF errc[c] # <<>>
       THEN /\ errLog' = Append(errLog, Head(errc[c]))
            /\ errc' = [errc EXCEPT ![c] = Tail(@)]
       ELSE /\ errLog' = Append(errLog, NoErr)
            /\ UNCHANGED errc
    /\ UNCHANGED <<clientVars, connVars, readerVars, rawVars, initVars, request, g1Pc,
                   resMsgs, resReceipt, resClosed, closePc, serverVars, histVars,
                   framingVars, startVars, lockVars, tailVars, seqVars>>

\* ----------------------------------------------------------- Client.Close
\* the child is gone or cut off: what was in its pipes and its own state are dropped
ChildGone ==
    /\ inPipe' = <<>> /\ outPipe' = <<>>
    /\ srvPc' = "gone" /\ srvReq' = ZeroMessage /\ messagesRaw' = <<>>
    /\ hPc' = "none" /\ hEnq' = 0 /\ callMsgs' = <<>> /\ closed1' = FALSE
    /\ closed2' = FALSE /\ drop' = FALSE /\ receiptFromServer' = <<>>
    /\ receiptToServer' = <<>> /\ messageBuff' = <<>> /\ size' = 0 /\ bodies' = <<>>

\* calls whose Execute waits for a terminal frame the reader has not read yet
InFlight ==
    {s \in Slots : /\ callId[s] \in pending
                   /\ rawPc[s] \in {"send", "select"}
                   /\ ~doneCh[s]
                   /\ ~(rdPc = "dispatch" /\ rdMsg.id = callId[s]
                        /\ rdMsg.status # MessageStatusContinue)}

\* a variant of Close's check that never finds a Close before it
ClosingForgotten == FALSE
\* c.closing, as Close tests it
Closing == closing

\* the body of ClientRaw.Close under both locks. conn.Close closes both pipes and
\* waits for the child, which ends itself on EOF: its result is nil here. Each call
\* is logged with what it returned and whether it tore the connection down.
CloseCall ==
    IF Closing
    THEN /\ closeLog' = Append(closeLog, [ret |-> ErrShutdown, teardown |-> FALSE])
         /\ UNCHANGED <<closing, connClosed, oobClosed, inFlightAtClose, inPipe,
                         outPipe, srvPc, srvReq, callVars, messagesRaw, crashed>>
    ELSE /\ closeLog' = Append(closeLog, [ret |-> NoErr, teardown |-> TRUE])
         /\ closing' = TRUE
         /\ connClosed' = TRUE
         \* close(c.Messages) panics on a channel that is closed
         /\ crashed' = IF oobClosed THEN "close of closed channel" ELSE crashed
         /\ oobClosed' = TRUE
         /\ inFlightAtClose' = InFlight
         /\ ChildGone

\* ClientRaw.Close, under both locks: set closing, close the connection (the child
\* sees EOF on its stdin; its state is of no consequence from here on) and close
\* the Messages channel
Close ==
    /\ ClientAlive /\ stage = "ready" /\ closePc = "idle" /\ StateLockFree
    /\ CloseCall
    /\ closePc' = "returned"
    /\ UNCHANGED <<shutdown, seq, pending, oob, childExited, readerVars,
                   rawVars, initVars, typedVars, delayDelivery, optsInit, sentLog, wroteLog,
                   enqueued, dropped, handed, startedAfterClose, startedAfterTimeout,
                   framingVars, startVars, unitVars>>

\* a Close after a Close has returned
CloseAgain ==
    /\ ClientAlive /\ closePc = "returned" /\ Len(closeLog) < MaxCloses
    /\ StateLockFree
    /\ CloseCall
    /\ UNCHANGED <<shutdown, seq, pending, oob, childExited, readerVars,
                   rawVars, initVars, typedVars, closePc, delayDelivery, optsInit, sentLog,
                   wroteLog, enqueued, dropped, handed, startedAfterClose,
                   startedAfterTimeout, framingVars, startVars, unitVars>>

\* ------------------------------------------------------ ClientRaw.seq
\* the part of newCall that is about the id, under mu: c.seq++, id := c.seq, and
\* the test of shutdown and closing, which comes after the increment
SeqNewCall(t) ==
    /\ Len(issued) < MaxIssued
    /\ seqHi' = Inc32(seqHi, seqLo)[1]
    /\ seqLo' = Inc32(seqHi, seqLo)[2]
    /\ issued' = Append(issued, [caller |-> t, id |-> Inc32(seqHi, seqLo),
                                  refused |-> Refused])
    /\ UNCHANGED <<modelVars, framingVars, startVars, lockVars, errLog, tailVars>>

\* ------------------------------------------------------ conn.stdErr
\* the lengths of the slices the copy of the child's stderr hands to Write: a
\* byte, a line, half the limit, the limit, one more, a stack trace
WriteSizes == {1, 100, 512, 1024, 1025, 2000}

\* tailBuffer.Write(p) with len(p) = n, under the buffer's mutex: the buffer is
\* reset when p would take it over the limit, then p is appended.  buff is
\* the number of bytes in b.buff.
TailWrite(n) ==
    /\ tailWrites < MaxTailWrites
    /\ buff' = (IF n + buff > limit THEN 0 ELSE buff) + n
    /\ tailWrites' = tailWrites + 1
    /\ UNCHANGED <<modelVars, framingVars, startVars, lockVars, errLog, seqVars>>

\* ------------------------------------------- the steps under the locks
Holder(m) == IF m = "sendMu" THEN sendMu ELSE mu
\* the next operation of the task
NextOp(t) == IF task[t] = <<>> THEN Do("none") ELSE Head(task[t])
Advance(t) == [task EXCEPT ![t] = Tail(@)]
Become(t, ops) == [task EXCEPT ![t] = ops]

\* sync.Mutex.Lock: the task goes on when nobody holds the mutex
LockStep(t) ==
    /\ ClientAlive /\ NextOp(t).op = "Lock"
    /\ Holder(NextOp(t).m) = NoTask
    /\ IF NextOp(t).m = "sendMu"
       THEN sendMu' = t /\ UNCHANGED mu
       ELSE mu' = t /\ UNCHANGED sendMu
    /\ task' = Advance(t)
    /\ UNCHANGED <<modelVars, framingVars, startVars, errLog, tailVars, seqVars>>

\* sync.Mutex.Unlock
UnlockStep(t) ==
    /\ ClientAlive /\ NextOp(t).op = "Unlock"
    /\ IF NextOp(t).m = "sendMu"
       THEN sendMu' = NoTask /\ UNCHANGED mu
       ELSE mu' = NoTask /\ UNCHANGED sendMu
    /\ task' = Advance(t)
    /\ UNCHANGED <<modelVars, framingVars, startVars, errLog, tailVars, seqVars>>

\* a caller enters ClientRaw.Execute, which calls newCall
ExecuteCalled(t) ==
    /\ ClientAlive /\ task[t] = <<>> /\ callId[t] = 0
    /\ \A b \in Callers : b < t => callId[b] # 0
    /\ task' = Become(t, newCallOps)
    /\ UNCHANGED <<modelVars, framingVars, startVars, sendMu, mu, errLog, tailVars,
                   seqVars>>

\* newCall under mu: the id, the test of shutdown and closing, the pending table
NewCallBody(t) ==
    /\ ClientAlive /\ NextOp(t).op = "newCall"
    /\ seq' = seq + 1
    /\ callId' = [callId EXCEPT ![t] = seq + 1]
    /\ IF Refused
       THEN /\ callErr' = [callErr EXCEPT ![t] = ErrShutdown]
            /\ doneCh' = done(doneCh, t)
            /\ task' = Become(t, newCallRefusedOps)
            /\ UNCHANGED pending
       ELSE /\ pending' = pending \cup {seq + 1}
            /\ task' = Advance(t)
            /\ UNCHANGED <<callErr, doneCh>>
    /\ UNCHANGED <<closing, shutdown, oob, oobClosed, crashed, connVars, readerVars,
                   rawPc, timer, sink, sinkClosed, ret, initVars, typedVars, closePc,
                   serverVars, histVars, framingVars, startVars, sendMu, mu, errLog,
                   tailVars, seqVars>>

\* send under both locks: the test of closing and shutdown
SendCheck(t) ==
    /\ ClientAlive /\ NextOp(t).op = "check"
    /\ IF closing \/ shutdown
       THEN /\ ret' = [ret EXCEPT ![t] = ErrShutdown]
            /\ task' = Become(t, sendRefusedOps)
       ELSE /\ task' = Advance(t)
            /\ UNCHANGED ret
    /\ UNCHANGED <<clientVars, connVars, readerVars, rawPc, callId, callErr, doneCh,
                   timer, sink, sinkClosed, initVars, typedVars, closePc, serverVars,
                   histVars, framingVars, startVars, sendMu, mu, errLog, tailVars,
                   seqVars>>

\* send under sendMu: call.Request.Write(c.conn)
SendWrite(t) ==
    /\ ClientAlive /\ NextOp(t).op = "Write"
    /\ IF childExited
       THEN /\ ret' = [ret EXCEPT ![t] = ErrBrokenPipe]
            /\ UNCHANGED <<inPipe, sentLog>>
       ELSE /\ inPipe' = Append(inPipe,
                                Frame(callId[t], MessageStatusOK, Encode(RequestOf(t))))
            /\ sentLog' = Append(sentLog,
                                 Frame(callId[t], MessageStatusOK, Encode(RequestOf(t))))
            /\ UNCHANGED ret
    /\ task' = Advance(t)
    /\ UNCHANGED <<clientVars, outPipe, connClosed, childExited, readerVars, rawPc,
                   callId, callErr, doneCh, timer, sink, sinkClosed, initVars,
                   typedVars, closePc, serverVars, wroteLog, enqueued, dropped, handed,
                   startedAfterClose, startedAfterTimeout, inFlightAtClose, closeLog,
                   framingVars, startVars, sendMu, mu, errLog, tailVars, seqVars>>

\* the reader's message.Read(c.conn): a frame, or the error that ends the loop
InputRead ==
    /\ ClientAlive /\ NextOp(ReaderTask).op = "Read"
    /\ IF connClosed
       THEN /\ rdErr' = ErrClosed /\ task' = Become(ReaderTask, teardownOps)
            /\ UNCHANGED <<rdMsg, outPipe>>
       ELSE IF outPipe # <<>>
       THEN /\ rdMsg' = Head(outPipe) /\ outPipe' = Tail(outPipe)
            /\ task' = Advance(ReaderTask)
            /\ UNCHANGED rdErr
       ELSE /\ childExited
            /\ rdErr' = EOF /\ task' = Become(ReaderTask, teardownOps)
            /\ UNCHANGED <<rdMsg, outPipe>>
    /\ UNCHANGED <<clientVars, inPipe, connClosed, childExited, rdPc, rawVars,
                   initVars, typedVars, closePc, serverVars, histVars, framingVars,
                   startVars, sendMu, mu, errLog, tailVars, seqVars>>

\* the reader, holding mu, sends the frame on its channel: a standalone message
\* goes to c.Messages, and the send waits while that channel is full.  (The
\* handlers of this part write standalone messages only.)
InputDeliver ==
    /\ ClientAlive /\ NextOp(ReaderTask).op = "deliver"
    /\ rdMsg.id = 0
    /\ IF oobClosed
       THEN crashed' = "send on closed channel" /\ UNCHANGED oob
       ELSE /\ Len(oob) < ChanCap
            /\ oob' = Append(oob, rdMsg) /\ UNCHANGED crashed
    /\ task' = Advance(ReaderTask)
    /\ UNCHANGED <<closing, shutdown, seq, pending, oobClosed, connVars, readerVars,
                   rawVars, initVars, typedVars, closePc, serverVars, histVars,
                   framingVars, startVars, sendMu, mu, errLog, tailVars, seqVars>>

\* `continue`: the next iteration of the reader's loop
InputContinue ==
    /\ ClientAlive /\ NextOp(ReaderTask).op = "continue"
    /\ task' = Become(ReaderTask, inputOps)
    /\ UNCHANGED <<modelVars, framingVars, startVars, sendMu, mu, errLog, tailVars,
                   seqVars>>

\* the reader under both locks after its loop: shutdown, and every pending call
\* is given the error
InputTerminate ==
    /\ ClientAlive /\ NextOp(ReaderTask).op = "terminate"
    /\ shutdown' = TRUE
    /\ callErr' = [s \in Slots |-> IF callId[s] \in pending THEN TeardownErr
                                   ELSE callErr[s]]
    /\ doneCh' = [s \in Slots |-> IF callId[s] \in pending THEN TRUE ELSE doneCh[s]]
    /\ task' = Advance(ReaderTask)
    /\ UNCHANGED <<closing, seq, pending, oob, oobClosed, crashed, connVars,
                   readerVars, rawPc, callId, timer, sink, sinkClosed, ret, initVars,
                   typedVars, closePc, serverVars, histVars, framingVars, startVars,
                   sendMu, mu, errLog, tailVars, seqVars>>

\* somebody calls ClientRaw.Close
CloseCalled ==
    /\ ClientAlive /\ task[CloserTask] = <<>> /\ Len(closeLog) < MaxCloses
    /\ task' = Become(CloserTask, closeOps)
    /\ UNCHANGED <<modelVars, framingVars, startVars, sendMu, mu, errLog, tailVars,
                   seqVars>>

\* Close under both locks
CloseBody ==
    /\ ClientAlive /\ NextOp(CloserTask).op = "close"
    /\ CloseCall
    /\ task' = Advance(CloserTask)
    /\ UNCHANGED <<shutdown, seq, pending, oob, childExited, readerVars,
                   rawVars, initVars, typedVars, closePc, delayDelivery, optsInit,
                   sentLog, wroteLog, enqueued, dropped, handed, startedAfterClose,
                   startedAfterTimeout, framingVars, startVars, sendMu, mu, errLog,
                   tailVars, seqVars>>

\* ------------------------------------------------------------- server
createErrorMessage(id, failureStatus) == Frame(id, failureStatus, DiagBody(failureStatus))

\* createMessage(b, err, h, failureStatus), with ok for err == nil
createMessage(b, ok, id, status, failureStatus) ==
    IF ~ok THEN createErrorMessage(id, failureStatus)
    ELSE Frame(id, status, b)

\* messageDispatcher.SendMessage: write the frames to the child's stdout
SendMessage(ms) ==
    /\ outPipe' = outPipe \o ms
    /\ wroteLog' = wroteLog \o ms

\* the Call of a finished request is garbage
ResetCall ==
    /\ hPc' = "none" /\ hEnq' = 0 /\ callMsgs' = <<>> /\ closed1' = FALSE
    /\ closed2' = FALSE /\ drop' = FALSE /\ receiptFromServer' = <<>>
    /\ receiptToServer' = <<>> /\ messageBuff' = <<>> /\ size' = 0 /\ bodies' = <<>>

\* a panic in a goroutine of the child ends the child process: its stdin is
\* gone, what it had written stays in the pipe
ChildPanics ==
    /\ childExited' = TRUE
    /\ inPipe' = <<>>
    /\ srvPc' = "gone" /\ srvReq' = ZeroMessage /\ messagesRaw' = <<>>
    /\ ResetCall

\* the request the handler of the current call sees
CurRequest == Decode(srvReq.body)

\* the init branch of callRaw: without opts.Init the answer is an error frame; with
\* it, the configuration may not decode and Init may return an error
InitOutcomes ==
    IF ~optsInit THEN {MessageStatusErrInitServerFailed}
    ELSE {MessageStatusOK, MessageStatusErrDecodeFailed, MessageStatusErrInitServerFailed}

\* ServerRaw.inputOutput reads a frame and calls callRaw: the init branch, the
\* request decode, and the creation of the Call with its handler goroutine
ServerRead ==
    /\ ServerAlive /\ srvPc = "read" /\ inPipe # <<>>
    /\ LET m == Head(inPipe) IN
       /\ inPipe' = Tail(inPipe)
       /\ IF m.status = MessageStatusInitServer
          THEN /\ \E outcome \in InitOutcomes :
                     SendMessage(<<IF outcome = MessageStatusOK
                                   THEN Frame(m.id, MessageStatusOK, NilBody)
                                   ELSE createErrorMessage(m.id, outcome)>>)
               /\ UNCHANGED <<srvPc, srvReq, callVars>>
          ELSE IF Decode(m.body) = BadRequest
          THEN /\ SendMessage(<<createErrorMessage(m.id, MessageStatusErrDecodeFailed)>>)
               /\ UNCHANGED <<srvPc, srvReq, callVars>>
          ELSE /\ srvReq' = m
               /\ srvPc' = "loop"
               /\ hPc' = "run"
               /\ UNCHANGED <<outPipe, wroteLog, hEnq, callMsgs, closed1, closed2, drop,
                              receiptFromServer, receiptToServer, messageBuff, size,
                              bodies>>
    /\ UNCHANGED <<clientVars, connClosed, childExited, readerVars, rawVars, initVars,
                   typedVars, closePc, delayDelivery, optsInit, messagesRaw, sentLog, enqueued, dropped, handed,
                   startedAfterClose, startedAfterTimeout, inFlightAtClose, closeLog,
                   framingVars, startVars, unitVars>>

\* a variant of the loop that writes every message at once
NeverDelayed == FALSE
\* opts.DelayDelivery, as the loop of callRaw tests it
Delayed == delayDelivery

\* a variant of the loop that hashes and counts a body only when it writes it
CreditedWhenWritten(b) == IF delayDelivery THEN <<>> ELSE <<b>>
\* the bodies an iteration of the loop hashes and counts: the body of its
\* message, whether the message was written or buffered
Credited(b) == <<b>>

\* one iteration of `for m := range call.messages` in callRaw
CallRawLoop ==
    /\ ServerAlive /\ srvPc = "loop" /\ callMsgs # <<>>
    /\ IF srvReq.id = 0
       THEN \* panic("message ID must not be 0 for request/response messages")
            /\ ChildPanics
            /\ UNCHANGED <<outPipe, wroteLog>>
       ELSE LET m == createMessage(Encode(Head(callMsgs)), CanEncode(Head(callMsgs)),
                                   srvReq.id, MessageStatusContinue,
                                   MessageStatusErrEncodeFailed) IN
            /\ callMsgs' = Tail(callMsgs)
            /\ IF Delayed
               THEN /\ messageBuff' = Append(messageBuff, m)
                    /\ UNCHANGED <<outPipe, wroteLog>>
               ELSE /\ SendMessage(<<m>>)
                    /\ UNCHANGED messageBuff
            /\ bodies' = bodies \o Credited(m.body)
            /\ size' = size + (IF Credited(m.body) = <<>> THEN 0 ELSE BodyLen(m.body))
            /\ UNCHANGED <<inPipe, childExited, srvPc, srvReq, hPc, hEnq, closed1,
                           closed2, drop, receiptFromServer, receiptToServer,
                           messagesRaw>>
    /\ UNCHANGED <<clientVars, connClosed, readerVars, rawVars,
                   initVars, typedVars, closePc, delayDelivery, optsInit,
                   sentLog, enqueued, dropped, handed, startedAfterClose, startedAfterTimeout,
                   inFlightAtClose, closeLog,
                   framingVars, startVars, unitVars>>

\* a variant of setReceiptValuesIfNotSet that sets the last-modified time only
setLastModifiedOnly(sz, checksum, r) ==
    [r EXCEPT !.lastModified = IF @ = 0 THEN 1 ELSE @]

\* setReceiptValuesIfNotSet on a receipt r; the hash of the bodies is kept symbolic
setReceiptValuesIfNotSet(sz, checksum, r) ==
    [r EXCEPT !.lastModified = IF @ = 0 THEN 1 ELSE @,
              !.size = IF sz # 0 /\ @ = 0 THEN sz ELSE @,
              !.tag = IF checksum # <<>> /\ @ = <<>> THEN checksum ELSE @]

\* a variant of the checksum that is empty when nothing was written to the hasher
ChecksumOfWritten(bs) == IF bs = <<>> THEN <<>> ELSE <<"hex">> \o bs
\* hex.EncodeToString(hasher.Sum(nil)) over the bodies written to the hasher
Checksum(bs) == <<"hex">> \o bs

\* call.messages is closed and drained: callRaw prepares the receipt for the handler
CallRawLoopEnd ==
    /\ ServerAlive /\ srvPc = "loop" /\ callMsgs = <<>> /\ closed1
    /\ receiptToServer' =
           <<setReceiptValuesIfNotSet(size, Checksum(bodies), ZeroReceipt)>>
    /\ srvPc' = "deferred"
    /\ UNCHANGED <<clientVars, connVars, readerVars, rawVars, initVars, typedVars,
                   closePc, srvReq, hPc, hEnq, callMsgs, closed1, closed2, drop,
                   receiptFromServer, messageBuff, size, bodies, delayDelivery, optsInit, messagesRaw,
                   histVars,
                   framingVars, startVars, unitVars>>

\* a variant of the deferred function that forgets the buffered messages
NoBuffered == <<>>
\* a variant of the deferred function that does not look at call.drop
BufferedWhateverDrop == IF delayDelivery THEN messageBuff ELSE <<>>
\* the buffered messages the deferred function sends before the receipt
Buffered == IF delayDelivery /\ ~drop THEN messageBuff ELSE <<>>

\* a variant of the deferred function that decorates the receipt it is about to send
ReceiptSentDecorated ==
    setReceiptValuesIfNotSet(size, Checksum(bodies), Head(receiptFromServer))
\* receipt := <-call.receiptFromServer, the receipt the deferred function sends
ReceiptSent == Head(receiptFromServer)

\* the deferred function of callRaw: the buffered messages, then the receipt
CallRawFinish ==
    /\ ServerAlive /\ srvPc = "deferred" /\ receiptFromServer # <<>>
    /\ SendMessage(Buffered
                   \o <<createMessage(Encode(ReceiptSent),
                                      CanEncodeReceipt(ReceiptSent),
                                      srvReq.id, MessageStatusOK,
                                      MessageStatusErrEncodeFailed)>>)
    /\ srvPc' = "read"
    /\ ResetCall
    /\ UNCHANGED <<clientVars, inPipe, connClosed, childExited, readerVars, rawVars,
                   initVars, typedVars, closePc, srvReq, delayDelivery, optsInit, messagesRaw, sentLog,
                   enqueued, dropped, handed, startedAfterClose, startedAfterTimeout,
                   inFlightAtClose, closeLog,
                   framingVars, startVars, unitVars>>

\* -------------------------------------------------- the handler (opts.Handle)
\* The handler is user code: what it enqueues and how it finishes are inputs.
\* An action takes the set its input is drawn from.
GoodMessage == MessageOf(CurRequest, hEnq + 1)
Faulted == \E i \in 1 .. Len(enqueued[srvReq.id]) : enqueued[srvReq.id][i] = BadValue

\* a handler that fails does so at once: an unencodable first message and nothing
\* after it, or an unencodable receipt when it enqueued nothing
PlainMessages ==
    IF Faulted THEN {} ELSE IF hEnq = 0 THEN {GoodMessage, BadValue} ELSE {GoodMessage}
PlainFinish ==
    {[close |-> TRUE, drop |-> FALSE, text |-> CurRequest, size |-> 0]}
    \cup (IF hEnq = 0
          THEN {[close |-> TRUE, drop |-> FALSE, text |-> BadValue, size |-> 0]}
          ELSE {})

\* any handler
AnyMessages == {GoodMessage, BadValue}
AnyFinish ==
    {[close |-> TRUE, drop |-> d, text |-> x, size |-> z] :
        d \in BOOLEAN, x \in {CurRequest, BadValue}, z \in {0, PresetSize}}
    \cup {[close |-> FALSE, drop |-> FALSE, text |-> CurRequest, size |-> 0]}

\* Call.Enqueue of one message, by a handler that enqueues at most max
HEnqueueUpTo(values, max) ==
    /\ ServerAlive /\ hPc = "run" /\ hEnq < max /\ Len(callMsgs) < ChanCap
    /\ \E v \in values :
          /\ callMsgs' = Append(callMsgs, v)
          /\ enqueued' = [enqueued EXCEPT ![srvReq.id] = Append(@, v)]
    /\ hEnq' = hEnq + 1
    /\ UNCHANGED <<clientVars, connVars, readerVars, rawVars, initVars, typedVars,
                   closePc, srvPc, srvReq, hPc, closed1, closed2, drop,
                   receiptFromServer, receiptToServer, messageBuff, size, bodies,
                   delayDelivery, optsInit, messagesRaw, sentLog, wroteLog, dropped, handed, startedAfterClose,
                   startedAfterTimeout, inFlightAtClose, closeLog,
                   framingVars, startVars, unitVars>>

HEnqueue(values) == HEnqueueUpTo(values, MaxMsgs)

\* Call.Receipt(): closeMessages, then the handler waits for the prepared receipt
HReceipt ==
    /\ ServerAlive /\ hPc = "run"
    /\ closed1' = TRUE
    /\ hPc' = "waitReceipt"
    /\ UNCHANGED <<clientVars, connVars, readerVars, rawVars, initVars, typedVars,
                   closePc, srvPc, srvReq, hEnq, callMsgs, closed2, drop,
                   receiptFromServer, receiptToServer, messageBuff, size, bodies,
                   delayDelivery, optsInit, messagesRaw, histVars,
                   framingVars, startVars, unitVars>>

\* Call.Close(drop, r)
CallClose(d, r) ==
    /\ drop' = d
    /\ dropped' = IF d THEN dropped \cup {srvReq.id} ELSE dropped
    /\ closed2' = TRUE
    /\ receiptFromServer' = Append(receiptFromServer, r)

\* the receipt a handler passes to Close: it sets the text of the receipt r it has
\* in hand, and the size when it wants its own (receipt.Size = 123 in the example)
Filled(f, r) == [r EXCEPT !.text = f.text, !.size = IF f.size # 0 THEN f.size ELSE @]

\* a variant of the handler's goroutine that sends no receipt for a handler that
\* returned without calling Close
HandlerEndsWithoutDefault(f, r) ==
    /\ IF f.close
       THEN /\ CallClose(f.drop, Filled(f, r))
            /\ handed' = [handed EXCEPT ![srvReq.id] =
                             <<[close |-> TRUE, fetched |-> hPc = "waitReceipt",
                                size |-> f.size, receipt |-> Filled(f, r)]>>]
       ELSE UNCHANGED <<drop, dropped, closed2, receiptFromServer, handed>>
    /\ closed1' = TRUE
    /\ hPc' = "done"

\* a variant of the handler's goroutine that, for a handler that returned without
\* calling Close, sends the receipt the handler had in hand
HandlerEndsWithReceiptInHand(f, r) ==
    /\ CallClose(IF f.close THEN f.drop ELSE FALSE, IF f.close THEN Filled(f, r) ELSE r)
    /\ handed' = [handed EXCEPT ![srvReq.id] =
                     <<[close |-> f.close, fetched |-> hPc = "waitReceipt",
                        size |-> f.size,
                        receipt |-> IF f.close THEN Filled(f, r) ELSE r]>>]
    /\ closed1' = TRUE
    /\ hPc' = "done"

\* the end of the handler, with r the receipt it has in hand: it sets the text and
\* calls Close, or it just returns, and then the goroutine of callRaw closes the
\* messages (if Receipt() was not called) and sends an empty receipt (if Close was
\* not called)
HandlerEnds(f, r) ==
    /\ IF f.close THEN CallClose(f.drop, Filled(f, r))
                  ELSE CallClose(FALSE, ZeroReceipt)
    /\ handed' = [handed EXCEPT ![srvReq.id] =
                     <<[close |-> f.close, fetched |-> hPc = "waitReceipt",
                        size |-> f.size,
                        receipt |-> IF f.close THEN Filled(f, r) ELSE ZeroReceipt]>>]
    /\ closed1' = TRUE
    /\ hPc' = "done"

\* the handler got the prepared receipt from Receipt()
HFinishFetched(finishes) ==
    /\ ServerAlive /\ hPc = "waitReceipt" /\ receiptToServer # <<>>
    /\ receiptToServer' = Tail(receiptToServer)
    /\ \E f \in finishes : HandlerEnds(f, Head(receiptToServer))
    /\ UNCHANGED <<clientVars, connVars, readerVars, rawVars, initVars, typedVars,
                   closePc, srvPc, srvReq, hEnq, callMsgs, messageBuff, size,
                   bodies, delayDelivery, optsInit, messagesRaw, sentLog, wroteLog, enqueued,
                   startedAfterClose, startedAfterTimeout, inFlightAtClose, closeLog,
                   framingVars, startVars, unitVars>>

\* the handler never called Receipt(): it finishes with a receipt of its own
HFinishOwn(finishes) ==
    /\ ServerAlive /\ hPc = "run"
    /\ \E f \in finishes : HandlerEnds(f, ZeroReceipt)
    /\ UNCHANGED <<clientVars, connVars, readerVars, rawVars, initVars, typedVars,
                   closePc, srvPc, srvReq, hEnq, callMsgs, receiptToServer,
                   messageBuff, size, bodies, delayDelivery, optsInit, messagesRaw, sentLog, wroteLog,
                   enqueued, startedAfterClose, startedAfterTimeout,
                   inFlightAtClose, closeLog,
                   framingVars, startVars, unitVars>>

\* the standalone frames written and waiting to be written
RawSent == {i \in 1 .. Len(wroteLog) : wroteLog[i].id = 0}
\* the body of a standalone message: raw bytes, not an encoding of the codec
RawBody == [raw |-> TRUE]

\* a variant of SendRaw that takes a message with any id
RawIdAccepted(id) == FALSE
\* the test of SendRaw: a standalone message must have id 0
RawIdRejected(id) == id # 0

\* Call.SendRaw of one message with one of the ids: SendRaw panics when the id
\* is not 0, and otherwise the message goes to the server's messagesRaw channel
HSendRawOf(ids, max) ==
    /\ ServerAlive /\ hPc = "run"
    /\ Cardinality(RawSent) + Len(messagesRaw) < max
    /\ \E id \in ids :
          IF RawIdRejected(id)
          THEN \* panic("message ID must be 0 for standalone messages")
               /\ ChildPanics
               /\ UNCHANGED <<outPipe, connClosed>>
          ELSE /\ Len(messagesRaw) < ChanCap
               /\ messagesRaw' = Append(messagesRaw, Frame(id, RawStatus, RawBody))
               /\ UNCHANGED <<connVars, srvPc, srvReq, callVars>>
    /\ UNCHANGED <<clientVars, readerVars, rawVars, initVars, typedVars,
                   closePc, delayDelivery, optsInit, histVars,
                   framingVars, startVars, unitVars>>
\* the handlers of most parts send well-formed standalone messages
HSendRawUpTo(max) == HSendRawOf({0}, max)
HSendRaw == HSendRawUpTo(MaxRaw)

\* the goroutine of NewServer that forwards standalone messages to the dispatcher
RawForward ==
    /\ ServerAlive /\ messagesRaw # <<>>
    /\ SendMessage(<<Head(messagesRaw)>>)
    /\ messagesRaw' = Tail(messagesRaw)
    /\ UNCHANGED <<clientVars, inPipe, connClosed, childExited, readerVars, rawVars,
                   initVars, typedVars, closePc, srvPc, srvReq, callVars,
                   delayDelivery, optsInit, sentLog, enqueued, dropped, handed,
                   startedAfterClose, startedAfterTimeout, inFlightAtClose, closeLog,
                   framingVars, startVars, unitVars>>

\* the child process dies (a panic of a handler, a kill)
ChildExits ==
    /\ ServerAlive
    /\ childExited' = TRUE
    /\ inPipe' = <<>>
    /\ srvPc' = "gone" /\ srvReq' = ZeroMessage /\ messagesRaw' = <<>>
    /\ ResetCall
    /\ UNCHANGED <<clientVars, outPipe, connClosed, readerVars, rawVars, initVars,
                   typedVars, closePc, delayDelivery, optsInit, histVars,
                   framingVars, startVars, unitVars>>

\* the steps of StartClient's init exchange, and a first caller that starts a
\* request on the client StartClient returned
NextConstruct ==
    \/ ClientInit
    \/ NewCall(InitSlot) \/ Send(InitSlot)
    \/ TimerFire(InitSlot) \/ ExecuteDone(InitSlot) \/ ExecuteTimeout(InitSlot)
    \/ PublishErr(InitSlot)
    \/ ReaderRead \/ ReaderDispatch \/ ReaderTeardown
    \/ InitSelect
    \/ TypedExecute(1) \/ NewCall(1) \/ Send(1)
    \/ ServerRead
    \/ ChildExits

SpecConstruct == InitConstruct /\ [][NextConstruct]_vars

Next ==
    \/ \E s \in Slots : NewCall(s) \/ Send(s) \/ TimerFire(s)
                        \/ ExecuteDone(s) \/ ExecuteTimeout(s) \/ PublishErr(s)
    \/ ReaderRead \/ ReaderDispatch \/ ReaderTeardown
    \/ \E c \in Callers : TypedExecute(c) \/ G1Recv(c) \/ G1End(c)
    \/ Close
    \/ ServerRead \/ CallRawLoop \/ CallRawLoopEnd \/ CallRawFinish
    \/ HEnqueue(PlainMessages) \/ HReceipt \/ HFinishFetched(PlainFinish)
    \/ ChildExits

Spec == Init /\ [][Next]_vars

\* one caller, and a handler that may do anything a handler can do
StreamProgress ==
    \/ NewCall(1) \/ Send(1) \/ ExecuteDone(1) \/ ExecuteTimeout(1) \/ PublishErr(1)
    \/ ReaderRead \/ ReaderDispatch \/ ReaderTeardown
    \/ G1Recv(1) \/ G1End(1)
    \/ ServerRead \/ CallRawLoop \/ CallRawLoopEnd \/ CallRawFinish
    \/ HEnqueue(AnyMessages) \/ HReceipt
    \/ HFinishFetched(AnyFinish) \/ HFinishOwn(AnyFinish)

NextStream ==
    \/ StreamProgress
    \/ TypedExecute(1) \/ TimerFire(1)
    \/ Close
    \/ ChildExits

\* every goroutine that can take a step eventually takes one; the timer, Close,
\* the death of the child and the caller's decision to call are not forced
SpecStream == InitStream /\ [][NextStream]_vars /\ WF_vars(StreamProgress)

\* one caller against a streaming handler that also sends standalone messages,
\* and Close
NextRaw ==
    \/ TypedExecute(1) \/ NewCall(1) \/ Send(1) \/ ExecuteDone(1) \/ PublishErr(1)
    \/ ReaderRead \/ ReaderDispatch \/ ReaderTeardown
    \/ G1Recv(1) \/ G1End(1)
    \/ ServerRead \/ CallRawLoop \/ CallRawLoopEnd \/ CallRawFinish
    \/ HEnqueue(PlainMessages) \/ HReceipt \/ HFinishFetched(PlainFinish)
    \/ HSendRaw \/ RawForward
    \/ Close \/ CloseAgain

SpecRaw == Init /\ [][NextRaw]_vars

\* two callers, one after the other, on a server whose handler sends standalone
\* messages that nobody takes from the client's Messages channel, and does not
\* finish: no frame of a call is written, so the select of Execute has its timer only
BacklogProgress ==
    \/ \E s \in Callers :
          \/ NewCall(s) \/ Send(s) \/ TimerFireWithin(s, NumCallers + 1)
          \/ ExecuteTimeout(s) \/ PublishErr(s) \/ G1End(s)
    \/ ReaderRead \/ ReaderBlocks \/ ReaderDispatch
    \/ ServerRead
    \/ HSendRawUpTo(MaxBacklog) \/ RawForward

\* the requests of this specification are well formed
WellFormed(c) == TypedExecute(c) /\ request'[c] = RequestOf(c)
NextBacklog == BacklogProgress \/ WellFormed(1) \/ WellFormed(2)

\* every goroutine that can take a step eventually takes one, and a timer that is
\* armed elapses; only the callers' decision to call is not forced
SpecBacklog == Init /\ [][NextBacklog]_vars /\ WF_vars(BacklogProgress)

\* one caller whose request, handler and connection may fail, and who calls Err
\* on the Result it got
NextResult ==
    \/ TypedExecute(1) \/ NewCall(1) \/ Send(1) \/ ExecuteDone(1) \/ PublishErr(1)
    \/ ReaderRead \/ ReaderDispatch \/ ReaderTeardown
    \/ G1Recv(1) \/ G1End(1)
    \/ ServerRead \/ CallRawLoop \/ CallRawLoopEnd \/ CallRawFinish
    \/ HEnqueue(AnyMessages) \/ HReceipt \/ HFinishFetched(AnyFinish)
    \/ Close \/ ChildExits
    \/ ResultErr(1)

SpecResult == Init /\ [][NextResult]_vars

\* the child writes to its stderr, which the command copies to the tail buffer
NextTail == \E n \in WriteSizes : TailWrite(n)

SpecTail == Init /\ [][NextTail]_vars

\* one caller against a streaming handler that passes SendRaw messages with id 0
\* and messages with the id of its request
RawIds == {0, srvReq.id}
NextSendRaw ==
    \/ TypedExecute(1) \/ NewCall(1) \/ Send(1) \/ ExecuteDone(1) \/ PublishErr(1)
    \/ ReaderRead \/ ReaderDispatch \/ ReaderTeardown
    \/ G1Recv(1) \/ G1End(1)
    \/ ServerRead \/ CallRawLoop \/ CallRawLoopEnd \/ CallRawFinish
    \/ HEnqueue(PlainMessages) \/ HReceipt \/ HFinishFetched(PlainFinish)
    \/ HSendRawOf(RawIds, MaxRaw + 1) \/ RawForward

SpecSendRaw == Init /\ [][NextSendRaw]_vars

\* concurrent callers of newCall, before and after a Close
NextSeq ==
    \/ \E t \in Callers : SeqNewCall(t)
    \/ Close

SpecSeq == InitSeq /\ [][NextSeq]_vars

\* two callers, the first of which never takes a message off its sink, on a
\* server whose handler enqueues MaxFlood messages for the first caller and one
\* for the second, and then closes with the prepared receipt
Flood == IF CurRequest = RequestOf(1) THEN MaxFlood ELSE 1
Flooded == HReceipt /\ hEnq = Flood
NextSlow ==
    \/ WellFormed(1) \/ WellFormed(2)
    \/ \E s \in Callers :
          \/ NewCall(s) \/ Send(s) \/ TimerFire(s)
          \/ ExecuteDone(s) \/ ExecuteTimeout(s) \/ PublishErr(s) \/ G1End(s)
    \/ G1Recv(2)
    \/ ReaderRead \/ ReaderBlocks \/ ReaderDispatch
    \/ ServerRead \/ CallRawLoop \/ CallRawLoopEnd \/ CallRawFinish
    \/ HEnqueueUpTo({GoodMessage}, Flood) \/ Flooded \/ HFinishFetched(PlainFinish)

SpecSlow == Init /\ [][NextSlow]_vars

\* the callers of Execute, the reader and a caller of Close at the level of single
\* lock operations, on a server whose handler sends standalone messages that
\* nobody takes from the client's Messages channel
LocksProgress ==
    \/ \E t \in Tasks : LockStep(t) \/ UnlockStep(t)
    \/ \E t \in Callers : NewCallBody(t) \/ SendCheck(t) \/ SendWrite(t)
    \/ InputRead \/ InputDeliver \/ InputContinue \/ InputTerminate
    \/ CloseBody
    \/ ServerRead
    \/ HSendRawUpTo(MaxBacklog) \/ RawForward

NextLocks ==
    \/ LocksProgress
    \/ \E t \in Callers : ExecuteCalled(t)
    \/ CloseCalled
    \/ ChildExits

\* a task that can take a step eventually takes one; nobody is forced to call
\* Execute or Close, and the child need not die
SpecLocks == InitLocks /\ [][NextLocks]_vars /\ WF_vars(LocksProgress)

\* a header or a message written to a stream, which may end early, and read back
NextMessage == WriteHeader \/ WriteMessage \/ Truncate \/ ReadHeader \/ ReadMessage

SpecMessage == InitMessage /\ [][NextMessage]_vars

\* concurrent writers on the two pipes
NextWire == \E w \in Writers : WLock(w) \/ WHeader(w) \/ WBody(w) \/ WUnlock(w)

SpecWire == Init /\ [][NextWire]_vars

\* the start of the child, seen from both processes
NextStart ==
    \/ UserPrint \/ ServerStart \/ CopyToStderr \/ ChildMainExits
    \/ StartReadByte \/ StartReadEOF \/ StartTimeout
    \/ StartSend \/ StartDispatch \/ StartFrameRead \/ StartClose

SpecStart == InitStart /\ [][NextStart]_vars

\* ================================================================ claims
\* the server answered the InitServer frame with status Ok, with an error status
InitAccepted ==
    \E i \in 1 .. Len(wroteLog) :
        wroteLog[i].id = callId[InitSlot] /\ wroteLog[i].status = MessageStatusOK
InitRejected ==
    \E i \in 1 .. Len(wroteLog) :
        wroteLog[i].id = callId[InitSlot] /\ IsServerError(wroteLog[i].status)

\* C8: StartClient returns a client only if a frame with status Ok answering the
\* InitServer frame was received; an init exchange that ends in any other way
\* (error status, transport error, shutdown, call timeout) fails the construction.
C8_ClientOnlyAfterOk == stage = "ready" => InitAccepted

\* C9: the client writes exactly one InitServer frame, as the first frame of the
\* connection, and writes no request frame (status 0) on a connection whose init
\* exchange the server rejected.
C9_OneInitThenRequests ==
    /\ \A j \in 1 .. Len(sentLog) :
           (sentLog[j].status = MessageStatusInitServer) <=> (j = 1)
    /\ InitRejected =>
           \A j \in 1 .. Len(sentLog) : sentLog[j].status # MessageStatusOK

\* the Execute of caller c has come to rest: both its goroutines are done, or the
\* one that ran the raw Execute is parked on the full errc
Settled(c) ==
    /\ g1Pc[c] = "done"
    /\ \/ rawPc[c] \in {"idle", "done"}
       \/ rawPc[c] = "returned" /\ Len(errc[c]) = 1
IsShutdownErr(err) == err # NoErr /\ Cause(err) = Cause(ErrShutdown)
Returned(s) == rawPc[s] \in {"returned", "done"}

\* C1: the Result of every typed Execute delivers exactly one terminal outcome, one
\* receipt or one error, never both and, once the call has come to rest, never
\* neither.
C1_ExactlyOneOutcome ==
    \A c \in Callers :
        /\ Len(resReceipt[c]) + Len(errc[c]) <= 1
        /\ Settled(c) => Len(resReceipt[c]) + Len(errc[c]) = 1

C5_InFlightGetShutdown ==
    \A s \in inFlightAtClose : Returned(s) => IsShutdownErr(ret[s])

\* C6: once an Execute has returned the call-timeout error, the reader discards the
\* frames the server writes later for that id: it does not crash, the client is not
\* shut down, and nothing is delivered.
C6_LateFramesDiscarded ==
    [][(/\ rdPc = "dispatch" /\ rdPc' = "read"
        /\ \E s \in Callers : callId[s] = rdMsg.id /\ ret[s] = ErrTimeoutWaitingForCall)
       => (crashed' = "no" /\ shutdown' = shutdown /\ sink' = sink)]_vars

\* C7: after an Execute with a well-formed request returned the call-timeout error
\* the client remains usable: an Execute issued afterwards with a well-formed
\* request completes with its receipt, so the client process is never found dead
\* while that call is still without its receipt.
C7_UsableAfterTimeout ==
    \A c \in Callers :
        (/\ \E s \in Callers : ret[s] = ErrTimeoutWaitingForCall /\ request[s] = RequestOf(s)
         /\ startedAfterTimeout[c] /\ request[c] = RequestOf(c)
         /\ resReceipt[c] = <<>>)
            => crashed # "send on closed channel"

\* C10: when the server cannot decode a request or cannot encode a message or the
\* receipt, the frame with the reserved error status is the last frame written for
\* that id, and the client reader keeps running.
C10_ErrorFrameIsLast ==
    /\ \A i, j \in 1 .. Len(wroteLog) :
           (i < j /\ wroteLog[i].id = wroteLog[j].id) => ~IsServerError(wroteLog[i].status)
    /\ crashed # "call not found"

\* what the handler of caller c's request has enqueued
EnqueuedFor(c) == IF callId[c] \in Ids THEN enqueued[callId[c]] ELSE <<>>

\* the handler of caller 1's request has finished and asked for delivery, and the
\* codec can encode all it produced
Delivering ==
    /\ hPc = "done" /\ srvReq.id = callId[1] /\ ~drop
    /\ \A i \in 1 .. Len(EnqueuedFor(1)) : CanEncode(EnqueuedFor(1)[i])
    /\ \A i \in 1 .. Len(receiptFromServer) : CanEncodeReceipt(receiptFromServer[i])
Delivered == resReceipt[1] # <<>> /\ resMsgs[1] = EnqueuedFor(1)
Disturbed == Elapsed # {} \/ closing \/ childExited
IsPrefix(p, q) == Len(p) <= Len(q) /\ \A i \in 1 .. Len(p) : p[i] = q[i]

\* C2: for a request whose handler enqueues K messages and finalizes without
\* dropping, Messages() yields exactly those K messages in enqueue order and then
\* one receipt is delivered: what Messages() has yielded is always a prefix of what
\* the handler enqueued, a receipt comes after all K of them, there is at most one,
\* and unless the call times out, the client is closed or the child dies, the
\* receipt does come.
C2_MessagesThenReceipt ==
    /\ [](/\ IsPrefix(resMsgs[1], EnqueuedFor(1))
          /\ Len(resReceipt[1]) <= 1
          /\ (resReceipt[1] # <<>> /\ callId[1] \notin dropped)
                => resMsgs[1] = EnqueuedFor(1))
    /\ (Delivering ~> (Delivered \/ Disturbed))

\* the caller has got all MaxMsgs messages of a handler on a server that delays
\* delivery, and the receipt
C2_Witness ==
    /\ delayDelivery /\ callId[1] \notin dropped
    /\ Len(EnqueuedFor(1)) = MaxMsgs
    /\ Delivered

\* ------------------------------------------------------ the typed server
\* the request frame with this id was handed to a handler: it is a request, not
\* the init frame, and its body decodes
Decoded(id) ==
    \E i \in 1 .. Len(sentLog) :
        /\ sentLog[i].id = id /\ sentLog[i].status # MessageStatusInitServer
        /\ Decode(sentLog[i].body) # BadRequest
\* every message the handler enqueued and the receipt it passed can be encoded
AllEncodable(id) ==
    /\ \A i \in 1 .. Len(enqueued[id]) : CanEncode(enqueued[id][i])
    /\ \A i \in 1 .. Len(handed[id]) : CanEncodeReceipt(handed[id][i].receipt)
\* the positions in the child's output of the frames of a request, the Continue
\* frames among them and the terminal ones
FramesOf(id) == {i \in 1 .. Len(wroteLog) : wroteLog[i].id = id}
ContinuesOf(id) == {i \in FramesOf(id) : wroteLog[i].status = MessageStatusContinue}
TerminalsOf(id) == FramesOf(id) \ ContinuesOf(id)
\* callRaw has returned from the request with this id
Served(id) == srvReq.id = id /\ srvPc = "read"

\* C11: for every request that decodes and whose encodes all succeed, the typed
\* server writes exactly one terminal frame with the request's id: never more than
\* one, it has status Ok and the encoded receipt as its body (the one the handler
\* passed to Close, or the zero receipt if it returned without calling Close), no
\* frame of the request comes after it, it is there once callRaw has returned, and
\* once the handler has ended it is written unless the child dies or is cut off.
C11_OneTerminalFrame ==
    /\ [](\A id \in Ids : (Decoded(id) /\ AllEncodable(id)) =>
            /\ Cardinality(TerminalsOf(id)) <= 1
            /\ \A t \in TerminalsOf(id) :
                  /\ handed[id] # <<>>
                  /\ wroteLog[t] = Frame(id, MessageStatusOK, Encode(handed[id][1].receipt))
                  /\ \A i \in FramesOf(id) : i <= t
            /\ Served(id) => TerminalsOf(id) # {})
    /\ \A id \in Ids :
          (srvReq.id = id /\ hPc = "done" /\ AllEncodable(id))
              ~> (TerminalsOf(id) # {} \/ ~ServerAlive)

\* a handler that enqueued MaxMsgs messages and returned without calling Close has
\* been served: MaxMsgs Continue frames and one terminal frame
C11_Witness ==
    \E id \in Ids :
        /\ Served(id) /\ AllEncodable(id) /\ Len(enqueued[id]) = MaxMsgs
        /\ handed[id] # <<>> /\ ~handed[id][1].close
        /\ Cardinality(ContinuesOf(id)) = MaxMsgs /\ Cardinality(TerminalsOf(id)) = 1

\* the handler of caller 1's request has ended, and how: it returned without
\* calling Close, it had fetched the framework's receipt through Receipt()
Ended(c) == callId[c] \in Ids /\ handed[callId[c]] # <<>>
ReturnedWithoutClose(c) == Ended(c) /\ ~handed[callId[c]][1].close
Fetched(c) == Ended(c) /\ handed[callId[c]][1].fetched

\* C12: if the handler returns without calling Close, with or without having
\* fetched Receipt(), the framework closes the messages queue and finalizes for it:
\* the queue is closed and Close has been called once the handler has ended, the
\* receipt the client gets is the zero receipt (last-modified 0) and comes after
\* every enqueued message, and when all messages encode the client does get it
\* unless the call times out, the client is closed or the child dies.
C12_NoCloseGivesEmptyReceipt ==
    /\ []((hPc = "done") => (closed1 /\ closed2))
    /\ []((ReturnedWithoutClose(1) /\ resReceipt[1] # <<>>)
            => (resReceipt[1] = <<ZeroReceipt>> /\ resMsgs[1] = EnqueuedFor(1)))
    /\ ((ReturnedWithoutClose(1) /\ AllEncodable(callId[1]))
            ~> ((resReceipt[1] = <<ZeroReceipt>> /\ resMsgs[1] = EnqueuedFor(1))
                \/ Disturbed))

\* the caller has got MaxMsgs messages and the zero receipt of a handler that
\* fetched Receipt() and returned without calling Close
C12_Witness ==
    /\ ReturnedWithoutClose(1) /\ Fetched(1)
    /\ Len(EnqueuedFor(1)) = MaxMsgs /\ resMsgs[1] = EnqueuedFor(1)
    /\ resReceipt[1] = <<ZeroReceipt>> /\ ZeroReceipt.lastModified = 0

\* C13: with DelayDelivery enabled and Close(drop=true), no Continue frame of that
\* request is ever written to the stream, and the client sees zero messages and
\* then the receipt: the caller of a dropped request has no message at any time,
\* and the receipt it gets is the one the handler passed to Close.
C13_DroppedNeverWritten ==
    delayDelivery =>
        /\ \A id \in dropped : ContinuesOf(id) = {}
        /\ (callId[1] \in dropped) =>
              /\ resMsgs[1] = <<>>
              /\ resReceipt[1] # <<>> => resReceipt[1] = <<handed[callId[1]][1].receipt>>

\* the caller has got the receipt, and no message, of a handler that enqueued
\* MaxMsgs encodable messages on a server that delays delivery and then dropped them
C13_Witness ==
    /\ delayDelivery /\ callId[1] \in dropped
    /\ Len(EnqueuedFor(1)) = MaxMsgs /\ AllEncodable(callId[1])
    /\ resReceipt[1] # <<>> /\ resMsgs[1] = <<>>

\* the frames callRaw makes of the messages a handler enqueued, in enqueue order
FramesOfEnqueued(id) ==
    [i \in 1 .. Len(enqueued[id]) |->
        createMessage(Encode(enqueued[id][i]), CanEncode(enqueued[id][i]), id,
                      MessageStatusContinue, MessageStatusErrEncodeFailed)]

\* C14: with DelayDelivery enabled no Continue frame of a request is written
\* before its handler has called Close, and at Close(drop=false) the buffered
\* frames are written in enqueue order, immediately followed by the receipt frame:
\* the step that ends callRaw appends exactly those frames and one terminal frame.
\* With DelayDelivery disabled each enqueued message is written as it is produced:
\* nothing is buffered, every message taken from the queue is on the stream, and
\* the k-th enqueued message gets written while the child lives, Close or no Close.
C14_DelayedUntilClose ==
    /\ [](delayDelivery =>
             \A id \in Ids : (handed[id] = <<>>) => ContinuesOf(id) = {})
    /\ [][(delayDelivery /\ srvPc = "deferred" /\ srvPc' = "read" /\ ~drop) =>
             /\ Len(wroteLog') = Len(wroteLog) + Len(enqueued[srvReq.id]) + 1
             /\ SubSeq(wroteLog', 1, Len(wroteLog')  - 1)
                    = wroteLog \o FramesOfEnqueued(srvReq.id)
             /\ wroteLog'[Len(wroteLog')].id = srvReq.id
             /\ wroteLog'[Len(wroteLog')].status # MessageStatusContinue]_vars
    /\ []((~delayDelivery /\ srvReq.id \in Ids /\ srvPc \in {"loop", "deferred"}) =>
             /\ messageBuff = <<>>
             /\ Cardinality(FramesOf(srvReq.id))
                    = Len(enqueued[srvReq.id]) - Len(callMsgs))
    /\ \A k \in 1 .. MaxMsgs :
          (~delayDelivery /\ srvReq.id = callId[1] /\ Len(EnqueuedFor(1)) >= k)
              ~> (Cardinality(FramesOf(callId[1])) >= k \/ ~ServerAlive)

\* a delaying server has written the MaxMsgs frames of a request and its receipt
\* frame at the end of callRaw
C14_Witness ==
    \E id \in Ids :
        /\ delayDelivery /\ Served(id) /\ id \notin dropped
        /\ Len(enqueued[id]) = MaxMsgs /\ Cardinality(ContinuesOf(id)) = MaxMsgs
        /\ Cardinality(TerminalsOf(id)) = 1

\* the encoded bodies of the messages a handler enqueued, in enqueue order, and
\* the sum of their lengths
BodiesOf(id) == [i \in 1 .. Len(enqueued[id]) |-> Encode(enqueued[id][i])]
SumLen(bs) ==
    LET sum[i \in 0 .. Len(bs)] == IF i = 0 THEN 0 ELSE sum[i - 1] + BodyLen(bs[i])
    IN sum[Len(bs)]
\* the caller has the receipt of a request whose encodes all succeeded
GotReceipt(c) == Ended(c) /\ AllEncodable(callId[c]) /\ resReceipt[c] # <<>>
\* the size and the tag of the receipt are the framework's, computed over the
\* bodies of the request's messages, but for a size the handler set itself
SizeAndTagSet(c) ==
    LET id == callId[c]
        h == handed[id][1]
        r == resReceipt[c][1]
    IN /\ r.size = IF h.size # 0 THEN h.size ELSE SumLen(BodiesOf(id))
       /\ r.tag = Checksum(BodiesOf(id))

ClosedEmpty(c) ==
    /\ Ended(c) /\ handed[callId[c]][1].close /\ EnqueuedFor(c) = <<>>
    /\ resReceipt[c] # <<>>
\* the receipt the caller has carries the framework's decoration of an empty
\* stream: the hex of the hasher's initial digest, no size but one the handler
\* set, a last-modified time
DecoratedEmpty(c) ==
    /\ resReceipt[c][1].tag = Checksum(<<>>) /\ Checksum(<<>>) # <<>>
    /\ resReceipt[c][1].size = handed[callId[c]][1].size
    /\ resReceipt[c][1].lastModified # 0

ClosedWithOwn(c) ==
    /\ Ended(c) /\ handed[callId[c]][1].close /\ ~handed[callId[c]][1].fetched
    /\ resReceipt[c] # <<>>

\* C17: when a handler calls Close with a receipt it built itself, without having
\* fetched the framework receipt through Receipt(), the client receives exactly
\* that receipt with no framework decoration: its last-modified stays 0, its tag
\* stays empty and its size is what the handler set, whatever was enqueued.
C17_OwnReceiptUndecorated ==
    ClosedWithOwn(1) =>
        /\ resReceipt[1] = <<handed[callId[1]][1].receipt>>
        /\ resReceipt[1][1].lastModified = 0
        /\ resReceipt[1][1].tag = <<>>
        /\ resReceipt[1][1].size = handed[callId[1]][1].size

\* the caller has the undecorated receipt of a handler that enqueued MaxMsgs
\* messages and closed with a receipt of its own that sets the text only
C17_Witness ==
    /\ ClosedWithOwn(1) /\ Len(EnqueuedFor(1)) = MaxMsgs /\ resMsgs[1] = EnqueuedFor(1)
    /\ resReceipt[1][1].text = request[1] /\ resReceipt[1][1].size = 0
    /\ resReceipt[1][1].lastModified = 0

\* ------------------------------------------------- standalone messages
\* the reader handles the frame it has read
Dispatches == rdPc = "dispatch" /\ rdPc' = "read"

\* C18: a frame with id 0 read by the client reader is delivered to the
\* out-of-band Messages channel only: the step that handles it appends it to
\* Messages, puts nothing in any call's sink, completes no call and leaves the
\* pending table unchanged; and the step that handles a frame with a non-zero id
\* leaves Messages unchanged.
C18_StandaloneToMessagesOnly ==
    [][Dispatches =>
         IF rdMsg.id = 0
         THEN /\ oob' = Append(oob, rdMsg)
              /\ sink' = sink /\ doneCh' = doneCh /\ pending' = pending
         ELSE oob' = oob]_vars

\* C18, the routing alone: whatever else the step does, a frame with id 0 reaches
\* no sink, completes no call and leaves the pending table unchanged, Messages
\* gets nothing but that frame, and a frame with a non-zero id leaves Messages
\* unchanged.
C18_RoutedApart ==
    [][Dispatches =>
         IF rdMsg.id = 0
         THEN /\ oob' \in {oob, Append(oob, rdMsg)}
              /\ sink' = sink /\ doneCh' = doneCh /\ pending' = pending
         ELSE oob' = oob]_vars

\* ------------------------------------------------------------ framing
\* the bytes on a pipe belong to one frame at a time: between two chunks of a
\* frame there is no chunk of another, and a frame starts with its header
SameFrame(a, b) == a.w = b.w /\ a.n = b.n
Contiguous(q) ==
    /\ \A i, k \in 1 .. Len(q) :
          (i < k /\ SameFrame(q[i], q[k])) => \A j \in i .. k : SameFrame(q[j], q[i])
    /\ \A i \in 1 .. Len(q) :
          (q[i].part = "body") => (i > 1 /\ SameFrame(q[i - 1], q[i]))
WritersOn(p) == {wirePipe[p][i].w : i \in 1 .. Len(wirePipe[p])}

\* C19: on both pipes the bytes of two frames never interleave: the header and
\* body bytes of each frame are contiguous on the child's stdin under concurrent
\* Execute callers, and on the child's stdout under concurrent request frames and
\* SendRaw (id 0) frames.
C19_FramesDoNotInterleave ==
    Contiguous(wirePipe["stdin"]) /\ Contiguous(wirePipe["stdout"])

\* every caller has written MaxFrames frames to stdin, and callRaw and the
\* forwarding goroutine have each written MaxFrames frames to stdout, with a
\* frame of the second caller in front of one of the first
C19_Witness ==
    /\ \A w \in Writers : wirePc[w] = [pc |-> "idle", n |-> MaxFrames]
    /\ WritersOn("stdin") = Callers
    /\ WritersOn("stdout") = {CallRawWriter, ForwardWriter}
    /\ wirePipe["stdin"][1].w = NumCallers

\* C20: for every Header h and every Message m, reading back what Write
\* produced yields an equal value, where Message.Write first overwrites the
\* header's size field with len(body) whatever the caller set (Header.Write
\* leaves it), nothing of the stream is left over, and the Read of a stream
\* shorter than the header, or than size body bytes, returns an error.
C20_WriteReadRoundTrip ==
    /\ (codecPc = "messageRead" /\ ~cut) =>
          /\ msgOut.err = NoErr /\ msgOut.rest = <<>>
          /\ msgOut.m = msgNow
          /\ msgNow = [msgIn EXCEPT !.Header.Size = Len(msgIn.Body)]
    /\ (codecPc = "headerRead" /\ ~cut) =>
          /\ msgOut.err = NoErr /\ msgOut.rest = <<>>
          /\ msgOut.m.Header = msgIn.Header
    /\ (codecPc \in {"messageRead", "headerRead"} /\ cut) => msgOut.err # NoErr

\* a message with a four-byte id, a body of MaxBody bytes and a size the caller
\* set wrong has been written and read back whole
C20_Witness ==
    /\ codecPc = "messageRead" /\ ~cut
    /\ msgIn.Header.ID = 16909060 /\ Len(msgIn.Body) = MaxBody
    /\ msgIn.Header.Size # Len(msgIn.Body)
    /\ msgOut.m = msgNow /\ msgOut.m.Header.Size = MaxBody /\ msgOut.m.Body = msgIn.Body

\* ------------------------------------------------------------------ C21
\* the line the server announces itself with, and what a stream holds after the
\* first such line
SentinelLine == serverStarted \o <<Newline>>
AfterSentinelLine(s) ==
    IF ~Contains(s, SentinelLine) THEN <<>>
    ELSE LET i == CHOOSE i \in 0 .. (Len(s) - Len(SentinelLine)) :
                      /\ SubSeq(s, i + 1, i + Len(SentinelLine)) = SentinelLine
                      /\ \A j \in 0 .. (i - 1) :
                            SubSeq(s, j + 1, j + Len(SentinelLine)) # SentinelLine
         IN SubSeq(s, i + Len(SentinelLine) + 1, Len(s))

\* C21: however the child's stdout is split across reads, what the frame reader
\* has read is the beginning of what the dispatcher has written: no byte of the
\* sentinel line reaches it and no byte of a frame is lost to the reader of
\* conn.Start.
C21_FrameReaderSeesFramesOnly ==
    /\ Len(frameIn) <= Len(dispatched)
    /\ \A i \in 1 .. Len(frameIn) : frameIn[i] = dispatched[i]

\* C21, the part that holds: while conn.Start scans, it has read the beginning of
\* the child's stdout and the token is not in it; the token is found as soon as
\* its last byte is read, however the reads were cut.
C21_TokenRecognized ==
    /\ startPc = "scanning" =>
          /\ ~Contains(read, serverStarted)
          /\ read = SubSeq(stdoutLog, 1, Len(read))
    /\ startPc = "started" => Contains(read, serverStarted)

\* ------------------------------------------------------------------ C22
\* C22: when the start timeout fires before the sentinel is seen, StartClientRaw
\* returns no client and the start-timeout error, the pipes are closed and the
\* child is not left running.
C22_TimeoutTearsDown ==
    startPc = "timeout" =>
        /\ ~StartClientRawReturn.client
        /\ Cause(StartClientRawReturn.err) = Cause(ErrTimeoutWaitingForServer)
        /\ pipesClosed
        /\ cmdPc = "exited"

\* C22, the part that holds: no client and the start-timeout error.
C22_TimeoutReturnsError ==
    startPc = "timeout" =>
        /\ ~StartClientRawReturn.client
        /\ Cause(StartClientRawReturn.err) = Cause(ErrTimeoutWaitingForServer)

\* ------------------------------------------------------------------ C23
\* C23: what user code prints to os.Stdout once the server has started is in the
\* server's own pipe or on stderr, and the stdout the client reads holds, after
\* the sentinel line, the frames of the dispatcher and nothing else.
C23_UserOutputOffFrameStream ==
    /\ userLog = stderrLog \o hijackPipe
    /\ AfterSentinelLine(stdoutLog) = dispatched

\* user code printed MaxPrint bytes after the start, all of them copied to stderr,
\* and the answer to a request was written and read by the client
C23_Witness ==
    /\ Len(userLog) = MaxPrint /\ stderrLog = userLog
    /\ dispatched # <<>> /\ Len(frameIn) >= Len(dispatched)

\* ------------------------------------------------------------------ C24
\* C24: when the channels of a Result are closed and no receipt was delivered, the
\* error is already in the Result: Err() returns it to a caller that has seen both
\* channels closed.
C24_ErrBeforeClose ==
    \A c \in Callers : (resClosed[c] /\ resReceipt[c] = <<>>) => errc[c] # <<>>

\* C24, the part that holds: an Execute that ended on an error frame or on a frame
\* that does not decode has its error published before its channels are closed.
C24_FrameErrBeforeClose ==
    \A c \in Callers :
        (resClosed[c] /\ resReceipt[c] = <<>> /\ rawPc[c] = "done" /\ ret[c] = NoErr)
            => errc[c] # <<>>

\* ------------------------------------------------------------------ C25
\* the frames the server wrote in answer to the init exchange
InitReplies == {i \in DOMAIN wroteLog : wroteLog[i].id = callId[InitSlot]}

\* C25: on a server without an Init function the configuration exchange is
\* answered with an Ok frame, and StartClient does not fail on the answer.
C25_InitOptional ==
    ~optsInit =>
        /\ \A i \in InitReplies : wroteLog[i].status = MessageStatusOK
        /\ stage = "failed" => (initErrc # <<>> \/ ~CanEncode(request[InitSlot]))

\* C25, what the code does: on a server without an Init function the exchange is
\* answered with the error status of a failed init, and StartClient returns a
\* client only when the init call itself failed (C8).
C25_InitRequired ==
    ~optsInit =>
        /\ \A i \in InitReplies : wroteLog[i].status = MessageStatusErrInitServerFailed
        /\ stage = "ready" => (sink[InitSlot] = <<>> /\ sinkClosed[InitSlot])

\* ------------------------------------------------------------------ C26
\* C26: of the calls of Close on a client the first tears the connection down and
\* every later one returns ErrShutdown and tears nothing down: the pipes and the
\* Messages channel are closed once.
C26_CloseOnce ==
    \A i \in DOMAIN closeLog :
        IF i = 1 THEN closeLog[i].teardown
        ELSE closeLog[i] = [ret |-> ErrShutdown, teardown |-> FALSE]

\* Close was called MaxCloses times
C26_Witness ==
    /\ Len(closeLog) = MaxCloses /\ closeLog[MaxCloses].ret = ErrShutdown
    /\ connClosed /\ oobClosed /\ ClientAlive

\* ------------------------------------------------------------------ C27
\* the calls of Execute that have entered id in the table and not returned
WaitersOf(id) == {s \in Slots : callId[s] = id /\ rawPc[s] \in {"send", "select"}}

\* C27: every id in the pending table has exactly one caller in Execute waiting
\* for its completion.
C27_PendingHasWaiter == \A id \in pending : Cardinality(WaitersOf(id)) = 1

\* C27, the part that holds: an id in the table was issued to exactly one call, and
\* a call that waits in its select without a result in its Done channel has its id
\* in the table unless the reader has shut down or is handing it its last frame.
C27_WaiterIsPending ==
    /\ \A id \in pending : Cardinality({s \in Slots : callId[s] = id}) = 1
    /\ \A s \in Slots :
          (rawPc[s] = "select" /\ ~doneCh[s] /\ ~shutdown /\ rdPc # "teardown")
              => callId[s] \in pending

\* ------------------------------------------------------------------ C28
\* C28: the server loop goes on reading while handlers run: whenever a frame waits
\* in the child's stdin, the loop can read it and start handling it, whether or not
\* the handler of an earlier request has finalized.
C28_LoopKeepsReading == (ServerAlive /\ inPipe # <<>>) => ENABLED ServerRead

\* C28, what the code does: a request is read only when no call is open, and every
\* request read before it has its terminal frame written.
C28_OneCallAtATime ==
    [][(srvPc = "read" /\ srvPc' = "loop") =>
          /\ hPc = "none"
          /\ \A i \in DOMAIN sentLog :
                (sentLog[i].id # srvReq'.id /\ \A k \in DOMAIN inPipe : inPipe[k] # sentLog[i])
                    => \E j \in DOMAIN wroteLog :
                          /\ wroteLog[j].id = sentLog[i].id
                          /\ wroteLog[j].status # MessageStatusContinue]_vars

\* ------------------------------------------------------------------ C29
\* C29: every Execute that was called returns, with the result of its call or with
\* the call timeout, as long as the client process lives.
C29_ExecuteReturns ==
    \A s \in Callers :
        (rawPc[s] = "newCall") ~> (rawPc[s] \in {"returned", "done"} \/ ~ClientAlive)

\* C29, the part that holds: a call that has written its request and armed its
\* timer returns.
C29_ArmedExecuteReturns ==
    \A s \in Callers :
        (rawPc[s] = "select") ~> (rawPc[s] \in {"returned", "done"} \/ ~ClientAlive)

\* ------------------------------------------------------------------ C30
\* the reader has read a frame whose non-zero id is not in the pending table
UnknownId == rdPc = "dispatch" /\ rdMsg.id # 0 /\ rdMsg.id \notin pending

\* C30: on a frame with an unknown id the reader leaves its loop for the teardown,
\* which marks the client shut down and fails the pending calls; the client
\* process lives on.
C30_UnknownIdShutsDown ==
    [][(UnknownId /\ rdPc' # rdPc) => (rdPc' = "teardown" /\ crashed' = "no")]_vars

\* C30, what the code does: the reader's step on a frame with an unknown id is the
\* panic that ends the client process; nothing is marked and no call is failed.
C30_UnknownIdPanics ==
    [][(UnknownId /\ rdPc' # rdPc) =>
          /\ crashed' = "call not found"
          /\ UNCHANGED <<shutdown, pending, callErr, doneCh, ret>>]_vars

\* ------------------------------------------------------------------ C31
\* the calls that are in the pending table and whose Execute has not returned
StillPending == {s \in Slots : callId[s] \in pending /\ rawPc[s] \in {"send", "select"}}
\* the read error is a bare EOF (or the read of a closed file)
BareEOF == rdErr \in {EOF, ErrClosed}

\* C31: on a read error the reader, in one step under both locks, sets shutdown
\* and completes every pending call with the read error, a bare EOF being turned
\* into ErrShutdown when closing is set and into unexpected EOF when it is not;
\* from then on no id is added to the pending table
C31_TeardownFailsPending ==
    [][ /\ (rdPc = "teardown" /\ rdPc' = "exited") =>
              /\ shutdown'
              /\ \A s \in StillPending :
                    /\ doneCh'[s]
                    /\ callErr'[s] = IF ~BareEOF THEN rdErr
                                     ELSE IF closing THEN ErrShutdown
                                     ELSE ErrUnexpectedEOF
        /\ shutdown => pending' \subseteq pending ]_vars

\* the child died under a call, which got unexpected EOF, and a call made
\* after the teardown was refused without entering the pending table
C31_Witness ==
    /\ rdPc = "exited" /\ shutdown /\ ~closing
    /\ \E s, t \in Callers :
          /\ callErr[s] = ErrUnexpectedEOF /\ callId[s] \in pending
          /\ callErr[t] = ErrShutdown /\ callId[t] \in Ids /\ callId[t] \notin pending

\* ------------------------------------------------------------------ C32
\* the task is at a Lock of the mutex and has not got it yet
WaitsFor(t, m) == NextOp(t) = Lock(m)

\* C32: no task waits for the write lock sendMu while it holds the state lock mu,
\* so a task that holds both took sendMu first, and no two tasks ever wait for
\* each other's lock
C32_LockOrder ==
    /\ \A t \in Tasks : WaitsFor(t, "sendMu") => mu # t
    /\ ~\E t, u \in Tasks :
          /\ sendMu = t /\ WaitsFor(t, "mu")
          /\ mu = u /\ WaitsFor(u, "sendMu")

\* the reader holds both locks in its teardown while Close waits for the write
\* lock and a caller in newCall waits for the state lock
C32_Witness ==
    /\ sendMu = ReaderTask /\ mu = ReaderTask
    /\ WaitsFor(CloserTask, "sendMu")
    /\ \E t \in Callers : WaitsFor(t, "mu") /\ sendMu # t

\* ------------------------------------------------------------------ C33
\* C33: Err only peeks: once a call of Err on a Result has returned an error,
\* every later call of Err on that Result returns the same error
C33_ErrPeeks ==
    \A i, j \in DOMAIN errLog :
        (i < j /\ errLog[i] # NoErr) => errLog[j] = errLog[i]

\* what Err does: it never waits, and it takes the error it returns off the
\* channel, so that the next call finds what was published since
C33_ErrReceives ==
    [][errLog' # errLog =>
          IF errc[1] # <<>>
          THEN errLog' = Append(errLog, Head(errc[1])) /\ errc'[1] = Tail(errc[1])
          ELSE errLog' = Append(errLog, NoErr) /\ errc' = errc]_vars

\* ------------------------------------------------------------------ C34
\* C34: on a server that delays delivery, the receipt the framework prepares has
\* size and tag computed over the bodies of all the messages the handler
\* enqueued; when the handler closes with that receipt and drop=true the caller
\* gets it with that size and tag although no message frame was written
C34_CreditedAtEnqueue ==
    delayDelivery =>
        /\ (receiptToServer # <<>> /\ AllEncodable(srvReq.id)) =>
              /\ Head(receiptToServer).size = SumLen(BodiesOf(srvReq.id))
              /\ Head(receiptToServer).tag = Checksum(BodiesOf(srvReq.id))
        /\ (/\ GotReceipt(1) /\ Fetched(1) /\ ~ReturnedWithoutClose(1)
            /\ callId[1] \in dropped) =>
              /\ SizeAndTagSet(1)
              /\ ContinuesOf(callId[1]) = {} /\ resMsgs[1] = <<>>

\* the caller has the receipt of a handler that enqueued MaxMsgs messages on a
\* delaying server, fetched the receipt and closed with it and drop=true: no
\* message frame was written, and the size is the sum of the bodies' lengths
C34_Witness ==
    /\ delayDelivery /\ callId[1] \in dropped
    /\ GotReceipt(1) /\ Fetched(1) /\ ~ReturnedWithoutClose(1)
    /\ Len(EnqueuedFor(1)) = MaxMsgs /\ handed[callId[1]][1].size = 0
    /\ resReceipt[1][1].size = SumLen(BodiesOf(callId[1])) /\ resReceipt[1][1].size > 0
    /\ resReceipt[1][1].tag = Checksum(BodiesOf(callId[1]))
    /\ ContinuesOf(callId[1]) = {}

\* ------------------------------------------------------------------ C35
\* C35: the stderr tail buffer never holds more than its limit of 1024 bytes,
\* whatever the sizes of the writes
C35_TailBounded == buff <= limit

\* what the reset gives: the buffer holds at most the limit, or else exactly the
\* one slice that was written last, and a write that would take the buffer over
\* the limit resets it first
C35_ResetThenWrite ==
    [][tailWrites' # tailWrites =>
          \E n \in WriteSizes :
             /\ buff' = IF n + buff > limit THEN n ELSE buff + n
             /\ (buff' > limit => n > limit /\ buff' = n)]_vars

\* ------------------------------------------------------------------ C36
\* the frames the step adds to the child's output
NewFrames == {wroteLog'[i] : i \in (Len(wroteLog) + 1) .. Len(wroteLog')}
\* the request the server is answering: the one it has just read, or the one
\* whose call is running
Answered == IF srvPc = "read" THEN Head(inPipe).id ELSE srvReq.id

Less32(a, b) == a[1] < b[1] \/ (a[1] = b[1] /\ a[2] < b[2])

\* C37: the ids one client issues are strictly increasing in the order of the
\* calls, so none is issued twice, and none is 0, whichever callers make the
\* calls and whether or not the calls are refused
C37_IdsIncrease ==
    \A i \in DOMAIN issued :
        /\ issued[i].id # <<0, 0>>
        /\ \A j \in DOMAIN issued : i < j => Less32(issued[i].id, issued[j].id)

\* what the counter gives: each id is the successor modulo 2^32 of the id issued
\* before it, for every caller and for refused calls too, and the ids of
\* MaxIssued calls in a row are all different
C37_IdsSucceed ==
    /\ \A i \in DOMAIN issued :
          /\ i > 1 => issued[i].id = Inc32(issued[i - 1].id[1], issued[i - 1].id[2])
          /\ \A j \in DOMAIN issued : i # j => issued[i].id # issued[j].id
    /\ issued # <<>> => issued[Len(issued)].id = <<seqHi, seqLo>>

\* ------------------------------------------------------------------ C38
\* the reader waits in a send on the full sink of a call, with mu held
BlockedOnSink == rdPc = "locked" /\ rdMsg.id # 0

\* C38: when the sink of a call is full and nothing is taken off it, the reader
\* stays in its send; while it does, no frame reaches the sink of any call or
\* the Messages channel, no call is completed (no Done is signalled, the pending
\* table is as it was), no request is written, and nothing is read from the pipe
C38_BackPressure ==
    [][/\ (rdPc \in {"dispatch", "locked"} /\ SendWouldBlock)
             => rdPc' \in {"dispatch", "locked"}
       /\ (BlockedOnSink /\ rdPc' = "locked") =>
             /\ \A s \in Slots : Len(sink'[s]) <= Len(sink[s])
             /\ \A s \in Slots : doneCh'[s] => doneCh[s]
             /\ oob' = oob /\ pending' = pending /\ sentLog' = sentLog
             /\ rdMsg' = rdMsg /\ IsPrefix(outPipe, outPipe')
      ]_vars

\* the reader waits on the full sink of the first call while the second call,
\* whose request was written, waits in its select and the answer to it lies
\* unread in the pipe
C38_Witness ==
    /\ BlockedOnSink /\ rdMsg.id = callId[1] /\ Len(sink[1]) = ChanCap
    /\ rawPc[2] = "select" /\ ~doneCh[2] /\ callId[2] \in pending
    /\ \E i \in DOMAIN outPipe : outPipe[i].id = callId[2]

\* ------------------------------------------------------------------ C39
\* C39: the reader never executes its send on the Messages channel after Close
\* has closed the channel
C39_NoSendAfterClose ==
    [][(Dispatches /\ rdMsg.id = 0) => ~oobClosed]_vars

\* what the closed channel gives: nothing is added to Messages once Close has
\* closed it, and a send that is attempted then panics
C39_ClosedStaysAsItWas ==
    [][oobClosed =>
          /\ oob' = oob
          /\ (Dispatches /\ rdMsg.id = 0) => crashed' = "send on closed channel"]_vars

\* ------------------------------------------------------------------ C40
\* a call of Close is under way
InClose == task[CloserTask] # <<>>
\* the reader, holding mu, waits in its send on the full Messages channel
ReaderParked ==
    /\ NextOp(ReaderTask).op = "deliver" /\ mu = ReaderTask
    /\ ~oobClosed /\ Len(oob) >= ChanCap

\* C40: every call of Close returns, also when nobody takes the messages off the
\* Messages channel and the reader is blocked in a send
C40_CloseReturns == InClose ~> (~InClose \/ ~ClientAlive)

\* what holds: a call of Close returns unless the reader is parked in a send on
\* the full Messages channel, in which case Close waits for mu
C40_CloseReturnsUnlessParked == InClose ~> (~InClose \/ ~ClientAlive \/ ReaderParked)

====
